---------------------------- MODULE Spec2Model ----------------------------
(***************************************************************************)
(* A model of the clustering study tool (cluster_study/src):               *)
(*   - calcDistance, kMeans and dbscan of AdvancedLesson.tsx and the       *)
(*     handlers of the AdvancedLesson component that call them,            *)
(*   - evaluate and the exercise-session handlers of                       *)
(*     IntroductoryLesson.tsx.                                             *)
(* Array indices are 1-based here (0-based in the source).                 *)
(***************************************************************************)
EXTENDS Integers, Sequences, FiniteSets, TLC

VARIABLES
    \* ---- dbscan(points, eps, minPts, norm): AdvancedLesson.tsx 159-202
    dbscan_points,      \* argument points
    dbscan_eps,         \* argument eps (an exact rational)
    dbscan_minPts,      \* argument minPts
    dbscan_norm,        \* argument norm
    dbscan_labels,      \* local labels
    dbscan_clusterId,   \* local clusterId
    dbscan_i,           \* loop variable i of the outer for (1-based)
    dbscan_seedSet,     \* local seedSet of the cluster being expanded
    dbscan_pc,          \* position: "for", "while", "done"
    dbscan_result,      \* the returned labeled points, <<>> before the return
    dbscan_seeds,       \* the points i at which line 183 started a cluster
    dbscan_earlier,     \* what an earlier call with the same arguments returned
    dbscan_queried,     \* per point: the calls regionQuery(point) so far
    \* ---- kMeans(points, k, norm, initialCentroids, maxIter): 102-156
    kMeans_points,            \* argument points
    kMeans_k,                 \* argument k
    kMeans_norm,              \* argument norm
    kMeans_initialCentroids,  \* argument initialCentroids, or Undefined
    kMeans_maxIter,           \* argument maxIter, a number >= 0 or Infinity
    kMeans_centroids,         \* local centroids (cs while sampling)
    kMeans_centroidsRef,      \* the array centroids refers to: one of its
                              \* own, or the caller's initialCentroids
    kMeans_seen,              \* local seen of the sampling loop
    kMeans_labels,            \* local labels
    kMeans_iter,              \* loop variable iter
    kMeans_converged,         \* the loop was left by the break of line 141
    kMeans_history,           \* the <<labels, centroids>> left by each update
    kMeans_pc,                \* position: "start", "sample", "iterate", "done"
    kMeans_result,            \* the returned labeled points
    \* ---- evaluate(pts): IntroductoryLesson.tsx 237-263
    evaluate_pts,       \* argument pts
    evaluate_out,       \* the last call: its argument and what it returned
    evaluate_prev,      \* the call before a recolouring
    evaluate_pc,        \* position: "call", "returned"
    \* ---- App and IntroductoryLesson: App.tsx 10, IntroductoryLesson.tsx 198-228
    INITIAL_POINTS,         \* the scatter generated when the module is loaded
    app_activeLesson,       \* App: activeLesson
    intro_selectedColour,   \* selectedColour
    intro_points,           \* points
    intro_snackbar,         \* snackbar: open, message, severity
    intro_congratsOpen,     \* congratsOpen
    intro_result,           \* result: attempted, success, correctCount
    intro_timers,           \* pending setTimeout callbacks of handleConfirm
    \* ---- calcDistance(a, b, norm): AdvancedLesson.tsx 86-99
    dist_a,             \* argument a
    dist_b,             \* argument b
    dist_d,             \* per norm: what calcDistance(a, b, norm) returned
    dist_r,             \* per norm: what calcDistance(b, a, norm) returned
    \* ---- the quiz of IntermediateLesson.tsx 259-323
    quiz_normKey,           \* normKey
    quiz_unlockedNorms,     \* unlockedNorms
    quiz_inputs,            \* quizInputs
    quiz_correctFlags,      \* correctFlags
    quiz_attemptedFlags,    \* attemptedFlags
    quiz_truth,             \* per norm: the truth of the last check
    \* ---- generatePoints(n, k, rnd): IntroductoryLesson.tsx 78-198
    gen_n,              \* argument n
    gen_k,              \* argument k
    gen_seed,           \* the seed given to mulberry32
    gen_sort,           \* how the engine's Array.prototype.sort proceeds
    gen_a,              \* the closure variable a of the generator rnd in use
    gen_raw,            \* generatePoints: raw
    gen_arr,            \* runKMeans: the copy of pts being sorted
    gen_i,              \* the sort: the element to place next (1-based)
    gen_centres,        \* runKMeans: centres
    gen_t,              \* runKMeans: loop variable t
    gen_out,            \* what the call returned
    gen_first,          \* what an earlier call returned
    gen_pc,             \* position: "raw", "sort", "lloyd", "returned"
    \* ---- AdvancedLesson: AdvancedLesson.tsx 246-343
    adv_datasetKey,         \* datasetKey
    adv_methodKey,          \* methodKey
    adv_normKey,            \* normKey
    adv_kInput,             \* kInput
    adv_epsInput,           \* epsInput
    adv_minPtsInput,        \* minPtsInput
    adv_runs,               \* runs
    adv_warning,            \* warning
    adv_initialCentroids,   \* initialCentroidsRef.current
    adv_centroidKey,        \* centroidKeyRef.current
    adv_ids,                \* how many run ids have been given out
    adv_used,               \* per k: the centroids that the latest K-Means
                            \* run with this k was given, since the dataset
                            \* was last changed
    adv_last                \* the k of the latest K-Means run since the
                            \* dataset was last changed

dbscanVars == <<dbscan_points, dbscan_eps, dbscan_minPts, dbscan_norm,
                dbscan_labels, dbscan_clusterId, dbscan_i, dbscan_seedSet,
                dbscan_pc, dbscan_result, dbscan_seeds, dbscan_earlier,
                dbscan_queried>>

kMeansVars == <<kMeans_points, kMeans_k, kMeans_norm, kMeans_initialCentroids,
                kMeans_maxIter, kMeans_centroids, kMeans_seen, kMeans_labels,
                kMeans_iter, kMeans_converged, kMeans_history, kMeans_pc,
                kMeans_result, kMeans_centroidsRef>>

evaluateVars == <<evaluate_pts, evaluate_out, evaluate_prev, evaluate_pc>>

introVars == <<INITIAL_POINTS, app_activeLesson, intro_selectedColour,
               intro_points, intro_snackbar, intro_congratsOpen, intro_result,
               intro_timers>>

distVars == <<dist_a, dist_b, dist_d, dist_r>>

quizVars == <<quiz_normKey, quiz_unlockedNorms, quiz_inputs, quiz_correctFlags,
              quiz_attemptedFlags, quiz_truth>>

generateVars == <<gen_n, gen_k, gen_seed, gen_sort, gen_a, gen_raw, gen_arr,
                  gen_i, gen_centres, gen_t, gen_out, gen_first, gen_pc>>

advVars == <<adv_datasetKey, adv_methodKey, adv_normKey, adv_kInput,
             adv_epsInput, adv_minPtsInput, adv_runs, adv_warning,
             adv_initialCentroids, adv_centroidKey, adv_ids, adv_used,
             adv_last>>

vars == <<dbscanVars, kMeansVars, evaluateVars, introVars, distVars, quizVars,
          generateVars, advVars>>

\* what a step of dbscan, of kMeans, of evaluate, of the session leaves alone
notDbscan == <<kMeansVars, evaluateVars, introVars, distVars, quizVars,
    generateVars,
    advVars>>
notKMeans == <<dbscanVars, evaluateVars, introVars, distVars, quizVars,
    generateVars,
    advVars>>
notEvaluate == <<dbscanVars, kMeansVars, introVars, distVars, quizVars,
    generateVars,
    advVars>>
notIntro == <<dbscanVars, kMeansVars, evaluateVars, distVars, quizVars,
    generateVars,
    advVars>>
notDist == <<dbscanVars, kMeansVars, evaluateVars, introVars, generateVars,
    advVars>>
notGenerate == <<dbscanVars, kMeansVars, evaluateVars, introVars, distVars,
                 quizVars,
    advVars>>
notAdv == <<dbscanVars, kMeansVars, evaluateVars, introVars, distVars,
    quizVars, generateVars>>

-----------------------------------------------------------------------------
(* Bounds of the model *)

\* dbscan: the input has at most this many points
MaxDbPts == 4
\* dbscan: the coordinates of its input points
DbCoords == 0..1
\* dbscan: eps is one of 1/2, 2/2, .. MaxEpsHalves/2
MaxEpsHalves == 3
\* dbscan: minPts is in 1..MaxMinPts
MaxMinPts == 3

\* kMeans: the input has at most this many points
MaxKmPts == 2
\* kMeans: the coordinates of its input points and of the supplied centroids
KmXs == 0..2
KmYs == 0..1
\* kMeans: the values of k
KmKs == -1..2
\* kMeans: maxIter is in 0..MaxIter, or Infinity
MaxIter == 1
\* evaluate: the argument has at most this many points
MaxEvalPts == 3
\* calcDistance: the coordinates of a and b are in 0..MaxCoord
MaxCoord == 7
\* generatePoints: n is in 0..MaxGenPts, k in 1..MaxGenK, the seed is that of
\* the program or one of 1..MaxSeed, and a draw that becomes a coordinate
\* keeps its leading RndBits bits
MaxGenPts == 3
MaxGenK == 2
MaxSeed == 7
RndBits == 2
\* session: the scatter has this many points
IntroPts == 2
\* session: at most this many onComplete timers are pending
MaxTimers == 1
\* AdvancedLesson: the points of a dataset, the runs saved in a session
AdvPts == 2
MaxRunIds == 3

-----------------------------------------------------------------------------
(* Exact arithmetic.  A number of the program is modelled by a rational    *)
(* [n, d] in lowest terms with d > 0; a distance is a rational, or the     *)
(* square root of one (Math.hypot).                                        *)

Abs(a) == IF a < 0 THEN -a ELSE a

RECURSIVE GCD(_, _)
GCD(a, b) == IF b = 0 THEN a ELSE GCD(b, a % b)

Rat(n, d) ==
    LET s == IF d < 0 THEN -1 ELSE 1
        g == GCD(Abs(n), Abs(d))
    IN  [n |-> (s * n) \div g, d |-> (s * d) \div g]

RInt(i) == [n |-> i, d |-> 1]
RAdd(a, b) == Rat(a.n * b.d + b.n * a.d, a.d * b.d)
RSub(a, b) == Rat(a.n * b.d - b.n * a.d, a.d * b.d)
RMul(a, b) == Rat(a.n * b.n, a.d * b.d)
RDivInt(a, i) == Rat(a.n, a.d * i)
RAbs(a) == [n |-> Abs(a.n), d |-> a.d]
RLeq(a, b) == a.n * b.d <= b.n * a.d
RLt(a, b) == a.n * b.d < b.n * a.d
RMax(a, b) == IF RLt(a, b) THEN b ELSE a

\* a non-negative real: the rational v (root = FALSE) or sqrt(v) (root = TRUE)
Exact(v) == [root |-> FALSE, v |-> v]
Sqrt(v) ==
    IF \E r \in 0..v.n : r * r = v.n /\ \E s \in 1..v.d : s * s = v.d
    THEN Exact([n |-> CHOOSE r \in 0..v.n : r * r = v.n,
                d |-> CHOOSE s \in 1..v.d : s * s = v.d])
    ELSE [root |-> TRUE, v |-> v]
Square(a) == IF a.root THEN a.v ELSE RMul(a.v, a.v)
\* comparison of two non-negative reals
DLeq(a, b) == RLeq(Square(a), Square(b))
DLt(a, b) == RLt(Square(a), Square(b))

Point(x, y) == [x |-> RInt(x), y |-> RInt(y)]

Norms == {"L1", "L2", "Linf"}

-----------------------------------------------------------------------------
(* calcDistance *)

calcDistance_NoRoot(a, b, norm) ==
    LET dx == RSub(a.x, b.x)
        dy == RSub(a.y, b.y)
    IN  CASE norm = "L1" -> Exact(RAdd(RAbs(dx), RAbs(dy)))
          [] norm = "L2" -> Exact(RAdd(RMul(dx, dx), RMul(dy, dy)))
          [] norm = "Linf" -> Exact(RMax(RAbs(dx), RAbs(dy)))
          [] OTHER -> Exact(RInt(0))
calcDistance_LinfOfFirst(a, b, norm) ==
    LET dx == RSub(a.x, b.x)
        dy == RSub(a.y, b.y)
    IN  CASE norm = "L1" -> Exact(RAdd(RAbs(dx), RAbs(dy)))
          [] norm = "L2" -> Sqrt(RAdd(RMul(dx, dx), RMul(dy, dy)))
          [] norm = "Linf" -> Exact(RMax(RAbs(a.x), RAbs(b.y)))
          [] OTHER -> Exact(RInt(0))
calcDistance_DropsDy(a, b, norm) ==
    LET dx == RSub(a.x, b.x)
        dy == RInt(0)
    IN  CASE norm = "L1" -> Exact(RAdd(RAbs(dx), RAbs(dy)))
          [] norm = "L2" -> Sqrt(RAdd(RMul(dx, dx), RMul(dy, dy)))
          [] norm = "Linf" -> Exact(RMax(RAbs(dx), RAbs(dy)))
          [] OTHER -> Exact(RInt(0))
calcDistance_L1IsMin(a, b, norm) ==
    LET dx == RSub(a.x, b.x)
        dy == RSub(a.y, b.y)
    IN  CASE norm = "L1" ->
                 Exact(IF RLt(RAbs(dx), RAbs(dy)) THEN RAbs(dx) ELSE RAbs(dy))
          [] norm = "L2" -> Sqrt(RAdd(RMul(dx, dx), RMul(dy, dy)))
          [] norm = "Linf" -> Exact(RMax(RAbs(dx), RAbs(dy)))
          [] OTHER -> Exact(RInt(0))
calcDistance(a, b, norm) ==
    LET dx == RSub(a.x, b.x)
        dy == RSub(a.y, b.y)
    IN  CASE norm = "L1" -> Exact(RAdd(RAbs(dx), RAbs(dy)))
          [] norm = "L2" -> Sqrt(RAdd(RMul(dx, dx), RMul(dy, dy)))
          [] norm = "Linf" -> Exact(RMax(RAbs(dx), RAbs(dy)))
          [] OTHER -> Exact(RInt(0))

-----------------------------------------------------------------------------
(* kMeans *)

\* an optional argument: left out, or given with a value
Undefined == [given |-> FALSE, val |-> <<>>]
Given(v) == [given |-> TRUE, val |-> v]
\* maxIter: a number, or Infinity
Finite(n) == [finite |-> TRUE, n |-> n]
Infinity == [finite |-> FALSE, n |-> 0]
\* {...points[idx]} for an idx outside the array: an object without x and y
EmptyObject == [empty |-> TRUE]

\* line 109
IsDegenerate_Strict(k) == k < 0
IsDegenerate(k) == k <= 0

\* line 113: initialCentroids && initialCentroids.length === k
UsesInitial(initialCentroids, k) ==
    initialCentroids.given /\ Len(initialCentroids.val) = k

\* line 119: Math.floor(Math.random() * points.length), 1-based; with no
\* points the product is 0 and the index is the first one
DrawSet(points) == IF Len(points) = 0 THEN {1} ELSE 1..Len(points)

\* line 122: {...points[idx]}
PointAt(points, idx) ==
    IF idx \in 1..Len(points) THEN points[idx] ELSE EmptyObject

\* line 135: dists.indexOf(Math.min(...dists)), as a 0-based label; -1 when
\* dists is empty (Math.min() is Infinity, which indexOf does not find)
ArgMin_OneBased(dists) ==
    IF Len(dists) = 0 THEN -1
    ELSE CHOOSE j \in 1..Len(dists) :
             /\ \A l \in 1..Len(dists) : DLeq(dists[j], dists[l])
             /\ \A l \in 1..(j - 1) : ~DLeq(dists[l], dists[j])
ArgMin_LastMinimum(dists) ==
    IF Len(dists) = 0 THEN -1
    ELSE (CHOOSE j \in 1..Len(dists) :
              /\ \A l \in 1..Len(dists) : DLeq(dists[j], dists[l])
              /\ \A l \in (j + 1)..Len(dists) : ~DLeq(dists[l], dists[j])) - 1
ArgMin(dists) ==
    IF Len(dists) = 0 THEN -1
    ELSE (CHOOSE j \in 1..Len(dists) :
              /\ \A l \in 1..Len(dists) : DLeq(dists[j], dists[l])
              /\ \A l \in 1..(j - 1) : ~DLeq(dists[l], dists[j])) - 1

\* lines 133-140: the labels after the assignment loop
Assign(points, centroids, norm) ==
    [i \in 1..Len(points) |->
        ArgMin([c \in 1..Len(centroids) |->
                    calcDistance(points[i], centroids[c], norm)])]

RECURSIVE SumOver(_, _, _)
\* the sum of coord(points[i]) over the i <= upto with labels[i] = lbl
SumOver(vals, keep, upto) ==
    IF upto = 0 THEN RInt(0)
    ELSE IF keep[upto]
         THEN RAdd(SumOver(vals, keep, upto - 1), vals[upto])
         ELSE SumOver(vals, keep, upto - 1)

\* as Update, with a centroid that no point is assigned to moved to the origin
Update_EmptyToOrigin(points, labels, centroids) ==
    [c \in 1..Len(centroids) |->
        LET keep == [i \in 1..Len(points) |-> labels[i] = c - 1]
            n == Cardinality({i \in 1..Len(points) : keep[i]})
            xs == [i \in 1..Len(points) |-> points[i].x]
            ys == [i \in 1..Len(points) |-> points[i].y]
        IN  IF n > 0
            THEN [x |-> RDivInt(SumOver(xs, keep, Len(points)), n),
                  y |-> RDivInt(SumOver(ys, keep, Len(points)), n)]
            ELSE [x |-> RInt(0), y |-> RInt(0)]]
\* lines 144-153: the centroids after the update
Update(points, labels, centroids) ==
    [c \in 1..Len(centroids) |->
        LET keep == [i \in 1..Len(points) |-> labels[i] = c - 1]
            n == Cardinality({i \in 1..Len(points) : keep[i]})
            xs == [i \in 1..Len(points) |-> points[i].x]
            ys == [i \in 1..Len(points) |-> points[i].y]
        IN  IF n > 0
            THEN [x |-> RDivInt(SumOver(xs, keep, Len(points)), n),
                  y |-> RDivInt(SumOver(ys, keep, Len(points)), n)]
            ELSE centroids[c]]

\* lines 109 and 155: points.map((p, i) => ({...p, cluster: labels[i]}))
Labeled(points, labels) ==
    [i \in 1..Len(points) |->
        [x |-> points[i].x, y |-> points[i].y, cluster |-> labels[i]]]

Zeros(n) == [i \in 1..n |-> 0]

kMeansInputs ==
    LET Grid == {Point(x, y) : x \in KmXs, y \in KmYs}
        \* supplied centroids: none, k of them, or a sequence of another length
        Supplied(k) ==
            {Undefined}
            \cup {Given(cs) : cs \in (IF k >= 1 THEN [1..k -> Grid]
                                                ELSE [1..1 -> Grid]) \cup {<<>>}}
    IN  UNION {[points : UNION {[1..n -> Grid] : n \in 0..MaxKmPts},
                k : {k},
                norm : Norms,
                initialCentroids : Supplied(k),
                maxIter : {Finite(m) : m \in 0..MaxIter} \cup {Infinity}] : k \in KmKs}

kMeansInit ==
    \E in \in kMeansInputs :
        /\ kMeans_points = in.points
        /\ kMeans_k = in.k
        /\ kMeans_norm = in.norm
        /\ kMeans_initialCentroids = in.initialCentroids
        /\ kMeans_maxIter = in.maxIter
        /\ kMeans_centroids = <<>>
        /\ kMeans_centroidsRef = "own"
        /\ kMeans_seen = {}
        /\ kMeans_labels = <<>>
        /\ kMeans_iter = 0
        /\ kMeans_converged = FALSE
        /\ kMeans_history = <<>>
        /\ kMeans_pc = "start"
        /\ kMeans_result = <<>>

\* no call of kMeans is in progress
kMeansIdle ==
    /\ kMeans_points = <<>>
    /\ kMeans_k = 0
    /\ kMeans_norm = "L2"
    /\ kMeans_initialCentroids = Undefined
    /\ kMeans_maxIter = Finite(0)
    /\ kMeans_centroids = <<>>
    /\ kMeans_centroidsRef = "own"
    /\ kMeans_seen = {}
    /\ kMeans_labels = <<>>
    /\ kMeans_iter = 0
    /\ kMeans_converged = FALSE
    /\ kMeans_history = <<>>
    /\ kMeans_pc = "idle"
    /\ kMeans_result = <<>>

\* line 109
kMeansDegenerate ==
    /\ kMeans_pc = "start"
    /\ IsDegenerate(kMeans_k)
    /\ kMeans_result' = Labeled(kMeans_points, Zeros(Len(kMeans_points)))
    /\ kMeans_pc' = "done"
    /\ UNCHANGED notKMeans
    /\ UNCHANGED <<kMeans_points, kMeans_k, kMeans_norm, kMeans_initialCentroids,
                   kMeans_centroidsRef,
                   kMeans_maxIter, kMeans_centroids, kMeans_seen, kMeans_labels,
                   kMeans_iter, kMeans_converged, kMeans_history>>

\* as kMeansCopyInitial, without the copy of line 114: centroids is the
\* caller's array
kMeansCopyInitial_NoCopy ==
    /\ kMeans_pc = "start"
    /\ ~IsDegenerate(kMeans_k)
    /\ UsesInitial(kMeans_initialCentroids, kMeans_k)
    /\ kMeans_centroids' = kMeans_initialCentroids.val
    /\ kMeans_centroidsRef' = "initialCentroids"
    /\ kMeans_labels' = Zeros(Len(kMeans_points))
    /\ kMeans_pc' = "iterate"
    /\ UNCHANGED notKMeans
    /\ UNCHANGED <<kMeans_points, kMeans_k, kMeans_norm, kMeans_initialCentroids,
                   kMeans_maxIter, kMeans_seen, kMeans_iter, kMeans_converged,
                   kMeans_history, kMeans_result>>

\* lines 112-114 and 128: the supplied centroids are copied
kMeansCopyInitial ==
    /\ kMeans_pc = "start"
    /\ ~IsDegenerate(kMeans_k)
    /\ UsesInitial(kMeans_initialCentroids, kMeans_k)
    /\ kMeans_centroids' = kMeans_initialCentroids.val
    /\ kMeans_centroidsRef' = "own"
    /\ kMeans_labels' = Zeros(Len(kMeans_points))
    /\ kMeans_pc' = "iterate"
    /\ UNCHANGED notKMeans
    /\ UNCHANGED <<kMeans_points, kMeans_k, kMeans_norm, kMeans_initialCentroids,
                   kMeans_maxIter, kMeans_seen, kMeans_iter, kMeans_converged,
                   kMeans_history, kMeans_result>>

\* lines 115-117: the sampling closure is entered
kMeansBeginSampling ==
    /\ kMeans_pc = "start"
    /\ ~IsDegenerate(kMeans_k)
    /\ ~UsesInitial(kMeans_initialCentroids, kMeans_k)
    /\ kMeans_pc' = "sample"
    /\ UNCHANGED notKMeans
    /\ UNCHANGED <<kMeans_points, kMeans_k, kMeans_norm, kMeans_initialCentroids,
                   kMeans_centroidsRef,
                   kMeans_maxIter, kMeans_centroids, kMeans_seen, kMeans_labels,
                   kMeans_iter, kMeans_converged, kMeans_history, kMeans_result>>

\* lines 118-124: one iteration of the sampling loop
kMeansDraw ==
    /\ kMeans_pc = "sample"
    /\ Len(kMeans_centroids) < kMeans_k
    /\ \E idx \in DrawSet(kMeans_points) :
           IF idx \notin kMeans_seen
           THEN /\ kMeans_seen' = kMeans_seen \cup {idx}
                /\ kMeans_centroids' =
                       Append(kMeans_centroids, PointAt(kMeans_points, idx))
           ELSE UNCHANGED <<kMeans_seen, kMeans_centroids>>
    /\ UNCHANGED notKMeans
    /\ UNCHANGED <<kMeans_points, kMeans_k, kMeans_norm, kMeans_initialCentroids,
                   kMeans_centroidsRef,
                   kMeans_maxIter, kMeans_labels, kMeans_iter, kMeans_converged,
                   kMeans_history, kMeans_pc, kMeans_result>>

\* lines 118 (loop exit), 125 and 128
kMeansSampled ==
    /\ kMeans_pc = "sample"
    /\ ~(Len(kMeans_centroids) < kMeans_k)
    /\ kMeans_labels' = Zeros(Len(kMeans_points))
    /\ kMeans_pc' = "iterate"
    /\ UNCHANGED notKMeans
    /\ UNCHANGED <<kMeans_points, kMeans_k, kMeans_norm, kMeans_initialCentroids,
                   kMeans_centroidsRef,
                   kMeans_maxIter, kMeans_centroids, kMeans_seen, kMeans_iter,
                   kMeans_converged, kMeans_history, kMeans_result>>

\* line 130: iter < maxIter
IterLeft(iter, maxIter) == ~maxIter.finite \/ iter < maxIter.n

\* as kMeansBreak, with a changed flag that is never set
kMeansBreak_FlagNeverSet ==
    /\ kMeans_pc = "iterate"
    /\ IterLeft(kMeans_iter, kMeans_maxIter)
    /\ kMeans_converged' = TRUE
    /\ kMeans_result' = Labeled(kMeans_points, kMeans_labels)
    /\ kMeans_pc' = "done"
    /\ UNCHANGED notKMeans
    /\ UNCHANGED <<kMeans_points, kMeans_k, kMeans_norm, kMeans_initialCentroids,
                   kMeans_centroidsRef,
                   kMeans_maxIter, kMeans_centroids, kMeans_seen, kMeans_labels,
                   kMeans_iter, kMeans_history>>

\* lines 130-141: a round whose assignment changes no label; the break
kMeansBreak ==
    /\ kMeans_pc = "iterate"
    /\ IterLeft(kMeans_iter, kMeans_maxIter)
    /\ Assign(kMeans_points, kMeans_centroids, kMeans_norm) = kMeans_labels
    /\ kMeans_converged' = TRUE
    /\ kMeans_result' = Labeled(kMeans_points, kMeans_labels)
    /\ kMeans_pc' = "done"
    /\ UNCHANGED notKMeans
    /\ UNCHANGED <<kMeans_points, kMeans_k, kMeans_norm, kMeans_initialCentroids,
                   kMeans_centroidsRef,
                   kMeans_maxIter, kMeans_centroids, kMeans_seen, kMeans_labels,
                   kMeans_iter, kMeans_history>>

\* lines 130-154: a round whose assignment changes a label, and its update
kMeansRound ==
    /\ kMeans_pc = "iterate"
    /\ IterLeft(kMeans_iter, kMeans_maxIter)
    /\ LET assigned == Assign(kMeans_points, kMeans_centroids, kMeans_norm)
           updated == Update(kMeans_points, assigned, kMeans_centroids)
       IN  /\ assigned # kMeans_labels
           /\ kMeans_labels' = assigned
           /\ kMeans_centroids' = updated
           /\ kMeans_history' = Append(kMeans_history, <<assigned, updated>>)
           \* line 152 writes into the array that centroids refers to
           /\ kMeans_initialCentroids' =
                  IF kMeans_centroidsRef = "initialCentroids"
                  THEN Given(updated) ELSE kMeans_initialCentroids
    /\ kMeans_iter' = kMeans_iter + 1
    /\ UNCHANGED notKMeans
    /\ UNCHANGED <<kMeans_points, kMeans_k, kMeans_norm, kMeans_centroidsRef,
                   kMeans_maxIter, kMeans_seen, kMeans_converged, kMeans_pc,
                   kMeans_result>>

\* lines 130 (loop exit) and 155
kMeansExhausted ==
    /\ kMeans_pc = "iterate"
    /\ ~IterLeft(kMeans_iter, kMeans_maxIter)
    /\ kMeans_result' = Labeled(kMeans_points, kMeans_labels)
    /\ kMeans_pc' = "done"
    /\ UNCHANGED notKMeans
    /\ UNCHANGED <<kMeans_points, kMeans_k, kMeans_norm, kMeans_initialCentroids,
                   kMeans_centroidsRef,
                   kMeans_maxIter, kMeans_centroids, kMeans_seen, kMeans_labels,
                   kMeans_iter, kMeans_converged, kMeans_history>>

kMeansNext ==
    \/ kMeansDegenerate
    \/ kMeansCopyInitial
    \/ kMeansBeginSampling
    \/ kMeansDraw
    \/ kMeansSampled
    \/ kMeansBreak
    \/ kMeansRound
    \/ kMeansExhausted

-----------------------------------------------------------------------------
(* dbscan *)

Unvisited == -99
Noise == -1

\* the indices 1..n in increasing order
RECURSIVE Indices(_)
Indices(n) == IF n = 0 THEN <<>> ELSE Append(Indices(n - 1), n)

InSeq(e, s) == \E j \in 1..Len(s) : s[j] = e

regionQuery(points, eps, norm, idx) ==
    LET near(j) == DLeq(calcDistance(points[idx], points[j], norm), Exact(eps))
    IN  SelectSeq(Indices(Len(points)), near)

\* line 179, negated: the neighbourhood makes its point a core point
IsDense_OffByOne(neighbors, minPts) == Len(neighbors) >= minPts - 1
IsDense(neighbors, minPts) == Len(neighbors) >= minPts

\* no earlier call
NoEarlier == [ran |-> FALSE, result |-> <<>>]

dbscanInputs ==
    LET Grid == {Point(x, y) : x \in DbCoords, y \in DbCoords}
    IN  [points : UNION {[1..n -> Grid] : n \in 0..MaxDbPts},
         eps : {Rat(h, 2) : h \in 1..MaxEpsHalves},
         minPts : 1..MaxMinPts,
         norm : Norms]

dbscanInit ==
    \E in \in dbscanInputs :
        /\ dbscan_points = in.points
        /\ dbscan_eps = in.eps
        /\ dbscan_minPts = in.minPts
        /\ dbscan_norm = in.norm
        /\ dbscan_labels = [j \in 1..Len(in.points) |-> Unvisited]
        /\ dbscan_clusterId = 0
        /\ dbscan_i = 1
        /\ dbscan_seedSet = <<>>
        /\ dbscan_pc = "for"
        /\ dbscan_result = <<>>
        /\ dbscan_seeds = <<>>
        /\ dbscan_earlier = NoEarlier
        /\ dbscan_queried = [j \in 1..Len(in.points) |-> 0]

\* line 177: the point was reached by an earlier expansion or marked noise
dbscanSkipVisited ==
    /\ dbscan_pc = "for"
    /\ dbscan_i <= Len(dbscan_points)
    /\ dbscan_labels[dbscan_i] # Unvisited
    /\ dbscan_i' = dbscan_i + 1
    /\ UNCHANGED <<dbscan_seeds, dbscan_queried>>
    /\ UNCHANGED notDbscan
    /\ UNCHANGED <<dbscan_earlier, dbscan_points, dbscan_eps, dbscan_minPts, dbscan_norm,
                   dbscan_labels, dbscan_clusterId, dbscan_seedSet,
                   dbscan_pc, dbscan_result>>

\* as dbscanMarkNoise, with the current cluster id for -1 at line 180
dbscanMarkNoise_JoinsCluster ==
    /\ dbscan_pc = "for"
    /\ dbscan_i <= Len(dbscan_points)
    /\ dbscan_labels[dbscan_i] = Unvisited
    /\ LET neighbors == regionQuery(dbscan_points, dbscan_eps, dbscan_norm, dbscan_i)
       IN  /\ ~IsDense(neighbors, dbscan_minPts)
           /\ dbscan_labels' = [dbscan_labels EXCEPT ![dbscan_i] = dbscan_clusterId]
    /\ dbscan_i' = dbscan_i + 1
    /\ dbscan_queried' = [dbscan_queried EXCEPT ![dbscan_i] = @ + 1]
    /\ UNCHANGED dbscan_seeds
    /\ UNCHANGED notDbscan
    /\ UNCHANGED <<dbscan_earlier, dbscan_points, dbscan_eps, dbscan_minPts, dbscan_norm,
                   dbscan_clusterId, dbscan_seedSet, dbscan_pc, dbscan_result>>

\* lines 178-182
dbscanMarkNoise_LeavesUnvisited ==
    /\ dbscan_pc = "for"
    /\ dbscan_i <= Len(dbscan_points)
    /\ dbscan_labels[dbscan_i] = Unvisited
    /\ LET neighbors == regionQuery(dbscan_points, dbscan_eps, dbscan_norm, dbscan_i)
       IN  ~IsDense(neighbors, dbscan_minPts)
    /\ dbscan_i' = dbscan_i + 1
    /\ dbscan_queried' = [dbscan_queried EXCEPT ![dbscan_i] = @ + 1]
    /\ UNCHANGED dbscan_seeds
    /\ UNCHANGED notDbscan
    /\ UNCHANGED <<dbscan_earlier, dbscan_points, dbscan_eps, dbscan_minPts,
                   dbscan_norm, dbscan_labels, dbscan_clusterId,
                   dbscan_seedSet, dbscan_pc, dbscan_result>>
dbscanMarkNoise ==
    /\ dbscan_pc = "for"
    /\ dbscan_i <= Len(dbscan_points)
    /\ dbscan_labels[dbscan_i] = Unvisited
    /\ LET neighbors == regionQuery(dbscan_points, dbscan_eps, dbscan_norm, dbscan_i)
       IN  /\ ~IsDense(neighbors, dbscan_minPts)
           /\ dbscan_labels' = [dbscan_labels EXCEPT ![dbscan_i] = Noise]
    /\ dbscan_i' = dbscan_i + 1
    /\ dbscan_queried' = [dbscan_queried EXCEPT ![dbscan_i] = @ + 1]
    /\ UNCHANGED dbscan_seeds
    /\ UNCHANGED notDbscan
    /\ UNCHANGED <<dbscan_earlier, dbscan_points, dbscan_eps, dbscan_minPts, dbscan_norm,
                   dbscan_clusterId, dbscan_seedSet, dbscan_pc, dbscan_result>>

\* lines 178-184
dbscanStartCluster ==
    /\ dbscan_pc = "for"
    /\ dbscan_i <= Len(dbscan_points)
    /\ dbscan_labels[dbscan_i] = Unvisited
    /\ LET neighbors == regionQuery(dbscan_points, dbscan_eps, dbscan_norm, dbscan_i)
           other(n) == n # dbscan_i
       IN  /\ IsDense(neighbors, dbscan_minPts)
           /\ dbscan_labels' = [dbscan_labels EXCEPT ![dbscan_i] = dbscan_clusterId]
           /\ dbscan_seedSet' = SelectSeq(neighbors, other)
    /\ dbscan_pc' = "while"
    /\ dbscan_seeds' = Append(dbscan_seeds, dbscan_i)
    /\ dbscan_queried' = [dbscan_queried EXCEPT ![dbscan_i] = @ + 1]
    /\ UNCHANGED notDbscan
    /\ UNCHANGED <<dbscan_earlier, dbscan_points, dbscan_eps, dbscan_minPts, dbscan_norm,
                   dbscan_clusterId, dbscan_i, dbscan_result>>

\* as dbscanExpand, without the test !seedSet.includes(n) of line 194
dbscanExpand_QueuesAgain ==
    /\ dbscan_pc = "while"
    /\ Len(dbscan_seedSet) > 0
    /\ LET current == Head(dbscan_seedSet)
           rest == Tail(dbscan_seedSet)
           labelled == [dbscan_labels EXCEPT ![current] = dbscan_clusterId]
           currentNeighbors ==
               regionQuery(dbscan_points, dbscan_eps, dbscan_norm, current)
           fresh(n) == labelled[n] = Unvisited
       IN  IF dbscan_labels[current] = Noise
           THEN \* line 187, then the continue of line 188
                /\ dbscan_labels' = labelled
                /\ dbscan_seedSet' = rest
                /\ UNCHANGED dbscan_queried
           ELSE IF dbscan_labels[current] # Unvisited
           THEN \* line 188
                /\ dbscan_labels' = dbscan_labels
                /\ dbscan_seedSet' = rest
                /\ UNCHANGED dbscan_queried
           ELSE \* lines 189-197
                /\ dbscan_labels' = labelled
                /\ dbscan_seedSet' =
                       IF IsDense(currentNeighbors, dbscan_minPts)
                       THEN rest \o SelectSeq(currentNeighbors, fresh)
                       ELSE rest
                /\ dbscan_queried' = [dbscan_queried EXCEPT ![current] = @ + 1]
    /\ UNCHANGED dbscan_seeds
    /\ UNCHANGED notDbscan
    /\ UNCHANGED <<dbscan_earlier, dbscan_points, dbscan_eps, dbscan_minPts, dbscan_norm,
                   dbscan_clusterId, dbscan_i, dbscan_pc, dbscan_result>>

\* as dbscanExpand, without the expansion of lines 190-197
dbscanExpand_NoChain ==
    /\ dbscan_pc = "while"
    /\ Len(dbscan_seedSet) > 0
    /\ LET current == Head(dbscan_seedSet)
           rest == Tail(dbscan_seedSet)
           labelled == [dbscan_labels EXCEPT ![current] = dbscan_clusterId]
           currentNeighbors ==
               regionQuery(dbscan_points, dbscan_eps, dbscan_norm, current)
           fresh(n) == ~InSeq(n, rest) /\ labelled[n] = Unvisited
       IN  IF dbscan_labels[current] = Noise
           THEN \* line 187, then the continue of line 188
                /\ dbscan_labels' = labelled
                /\ dbscan_seedSet' = rest
                /\ UNCHANGED dbscan_queried
           ELSE IF dbscan_labels[current] # Unvisited
           THEN \* line 188
                /\ dbscan_labels' = dbscan_labels
                /\ dbscan_seedSet' = rest
                /\ UNCHANGED dbscan_queried
           ELSE \* lines 189-197
                /\ dbscan_labels' = labelled
                /\ dbscan_seedSet' =
                       rest
                /\ dbscan_queried' = [dbscan_queried EXCEPT ![current] = @ + 1]
    /\ UNCHANGED dbscan_seeds
    /\ UNCHANGED notDbscan
    /\ UNCHANGED <<dbscan_earlier, dbscan_points, dbscan_eps, dbscan_minPts, dbscan_norm,
                   dbscan_clusterId, dbscan_i, dbscan_pc, dbscan_result>>

\* lines 185-198: one iteration of the while loop
dbscanExpand ==
    /\ dbscan_pc = "while"
    /\ Len(dbscan_seedSet) > 0
    /\ LET current == Head(dbscan_seedSet)
           rest == Tail(dbscan_seedSet)
           labelled == [dbscan_labels EXCEPT ![current] = dbscan_clusterId]
           currentNeighbors ==
               regionQuery(dbscan_points, dbscan_eps, dbscan_norm, current)
           fresh(n) == ~InSeq(n, rest) /\ labelled[n] = Unvisited
       IN  IF dbscan_labels[current] = Noise
           THEN \* line 187, then the continue of line 188
                /\ dbscan_labels' = labelled
                /\ dbscan_seedSet' = rest
                /\ UNCHANGED dbscan_queried
           ELSE IF dbscan_labels[current] # Unvisited
           THEN \* line 188
                /\ dbscan_labels' = dbscan_labels
                /\ dbscan_seedSet' = rest
                /\ UNCHANGED dbscan_queried
           ELSE \* lines 189-197
                /\ dbscan_labels' = labelled
                /\ dbscan_seedSet' =
                       IF IsDense(currentNeighbors, dbscan_minPts)
                       THEN rest \o SelectSeq(currentNeighbors, fresh)
                       ELSE rest
                /\ dbscan_queried' = [dbscan_queried EXCEPT ![current] = @ + 1]
    /\ UNCHANGED dbscan_seeds
    /\ UNCHANGED notDbscan
    /\ UNCHANGED <<dbscan_earlier, dbscan_points, dbscan_eps, dbscan_minPts, dbscan_norm,
                   dbscan_clusterId, dbscan_i, dbscan_pc, dbscan_result>>

\* lines 185 (loop exit), 199 and the i++ of line 176
dbscanCloseCluster_SkipsId ==
    /\ dbscan_pc = "while"
    /\ Len(dbscan_seedSet) = 0
    /\ dbscan_clusterId' = dbscan_clusterId + 2
    /\ dbscan_i' = dbscan_i + 1
    /\ dbscan_pc' = "for"
    /\ UNCHANGED <<dbscan_seeds, dbscan_queried>>
    /\ UNCHANGED notDbscan
    /\ UNCHANGED <<dbscan_earlier, dbscan_points, dbscan_eps, dbscan_minPts,
                   dbscan_norm, dbscan_labels, dbscan_seedSet, dbscan_result>>
dbscanCloseCluster ==
    /\ dbscan_pc = "while"
    /\ Len(dbscan_seedSet) = 0
    /\ dbscan_clusterId' = dbscan_clusterId + 1
    /\ dbscan_i' = dbscan_i + 1
    /\ dbscan_pc' = "for"
    /\ UNCHANGED <<dbscan_seeds, dbscan_queried>>
    /\ UNCHANGED notDbscan
    /\ UNCHANGED <<dbscan_earlier, dbscan_points, dbscan_eps, dbscan_minPts, dbscan_norm,
                   dbscan_labels, dbscan_seedSet, dbscan_result>>

\* line 201
dbscanReturn ==
    /\ dbscan_pc = "for"
    /\ dbscan_i > Len(dbscan_points)
    /\ dbscan_result' = Labeled(dbscan_points, dbscan_labels)
    /\ dbscan_pc' = "done"
    /\ UNCHANGED <<dbscan_seeds, dbscan_queried>>
    /\ UNCHANGED notDbscan
    /\ UNCHANGED <<dbscan_earlier, dbscan_points, dbscan_eps, dbscan_minPts, dbscan_norm,
                   dbscan_labels, dbscan_clusterId, dbscan_i, dbscan_seedSet>>

\* dbscan is called again with the same arguments: lines 165-166 make its
\* locals anew, nothing of the earlier call is read
dbscanCallAgain_SharedClusterId ==
    /\ dbscan_pc = "done"
    /\ ~dbscan_earlier.ran
    /\ dbscan_earlier' = [ran |-> TRUE, result |-> dbscan_result]
    /\ dbscan_labels' = [j \in 1..Len(dbscan_points) |-> Unvisited]
    /\ dbscan_i' = 1
    /\ dbscan_seedSet' = <<>>
    /\ dbscan_seeds' = <<>>
    /\ dbscan_queried' = [j \in 1..Len(dbscan_points) |-> 0]
    /\ dbscan_result' = <<>>
    /\ dbscan_pc' = "for"
    /\ UNCHANGED notDbscan
    /\ UNCHANGED <<dbscan_points, dbscan_eps, dbscan_minPts, dbscan_norm,
                   dbscan_clusterId>>
dbscanCallAgain ==
    /\ dbscan_pc = "done"
    /\ ~dbscan_earlier.ran
    /\ dbscan_earlier' = [ran |-> TRUE, result |-> dbscan_result]
    /\ dbscan_labels' = [j \in 1..Len(dbscan_points) |-> Unvisited]
    /\ dbscan_clusterId' = 0
    /\ dbscan_i' = 1
    /\ dbscan_seedSet' = <<>>
    /\ dbscan_seeds' = <<>>
    /\ dbscan_queried' = [j \in 1..Len(dbscan_points) |-> 0]
    /\ dbscan_result' = <<>>
    /\ dbscan_pc' = "for"
    /\ UNCHANGED notDbscan
    /\ UNCHANGED <<dbscan_points, dbscan_eps, dbscan_minPts, dbscan_norm>>

dbscanNext ==
    \/ dbscanSkipVisited
    \/ dbscanMarkNoise
    \/ dbscanStartCluster
    \/ dbscanExpand
    \/ dbscanCloseCluster
    \/ dbscanReturn
    \/ dbscanCallAgain

\* no call of dbscan is in progress
dbscanIdle ==
    /\ dbscan_points = <<>>
    /\ dbscan_eps = RInt(1)
    /\ dbscan_minPts = 1
    /\ dbscan_norm = "L2"
    /\ dbscan_labels = <<>>
    /\ dbscan_clusterId = 0
    /\ dbscan_i = 1
    /\ dbscan_seedSet = <<>>
    /\ dbscan_pc = "idle"
    /\ dbscan_result = <<>>
    /\ dbscan_seeds = <<>>
    /\ dbscan_earlier = NoEarlier
    /\ dbscan_queried = <<>>

-----------------------------------------------------------------------------
(* IntroductoryLesson: evaluate *)

paletteColours == {"#e74c3c", "#f1c40f", "#2e7d32"}
\* colour: null
Null == "null"
\* isCorrect?: boolean
Unknown == "undefined"
True == "true"
False == "false"
Bool(b) == IF b THEN True ELSE False

CLUSTER_COUNT == 3
X_MIN == 50
Y_MIN == 50

\* lines 240-259: the point p of pts with isCorrect set
evaluatePoint_IgnoreOthers(pts, p) ==
    IF p.colour = Null THEN [p EXCEPT !.isCorrect = False]
    ELSE LET sameClusterConsistent ==
                 \A j \in 1..Len(pts) :
                     pts[j].clusterId # p.clusterId \/ pts[j].colour = p.colour
         IN  [p EXCEPT !.isCorrect = Bool(sameClusterConsistent)]
evaluatePoint_NullPasses(pts, p) ==
    LET sameClusterConsistent ==
            \A j \in 1..Len(pts) :
                pts[j].clusterId # p.clusterId \/ pts[j].colour = p.colour
        noOtherClusterSharesColour ==
            \A j \in 1..Len(pts) :
                pts[j].clusterId = p.clusterId \/ pts[j].colour # p.colour
    IN  [p EXCEPT !.isCorrect =
                      Bool(sameClusterConsistent /\ noOtherClusterSharesColour)]
evaluatePoint_SkipsUncoloured(pts, p) ==
    IF p.colour = Null THEN [p EXCEPT !.isCorrect = False]
    ELSE LET sameClusterConsistent ==
                 \A j \in 1..Len(pts) :
                     \/ pts[j].clusterId # p.clusterId
                     \/ pts[j].colour = Null
                     \/ pts[j].colour = p.colour
             noOtherClusterSharesColour ==
                 \A j \in 1..Len(pts) :
                     pts[j].clusterId = p.clusterId \/ pts[j].colour # p.colour
         IN  [p EXCEPT !.isCorrect =
                           Bool(sameClusterConsistent /\ noOtherClusterSharesColour)]
evaluatePoint(pts, p) ==
    IF p.colour = Null THEN [p EXCEPT !.isCorrect = False]
    ELSE LET sameClusterConsistent ==
                 \A j \in 1..Len(pts) :
                     pts[j].clusterId # p.clusterId \/ pts[j].colour = p.colour
             noOtherClusterSharesColour ==
                 \A j \in 1..Len(pts) :
                     pts[j].clusterId = p.clusterId \/ pts[j].colour # p.colour
         IN  [p EXCEPT !.isCorrect =
                           Bool(sameClusterConsistent /\ noOtherClusterSharesColour)]

\* lines 237-263
evaluate(pts) ==
    LET updated == [i \in 1..Len(pts) |-> evaluatePoint(pts, pts[i])]
    IN  [updated |-> updated,
         correctCount |->
             Cardinality({i \in 1..Len(pts) : updated[i].isCorrect = True})]

\* the points a generator run can give: ids 0.., a hidden cluster each, no
\* colour and no isCorrect
GeneratedPoints(n) ==
    {[i \in 1..n |-> [id |-> i - 1, x |-> X_MIN + i, y |-> Y_MIN + i,
                      colour |-> Null, clusterId |-> cl[i],
                      isCorrect |-> Unknown]] :
        cl \in [1..n -> 0..(CLUSTER_COUNT - 1)]}

\* any colouring of generated points
ColouredPoints(n) ==
    {[i \in 1..n |-> [g[i] EXCEPT !.colour = col[i]]] :
        g \in GeneratedPoints(n), col \in [1..n -> paletteColours \cup {Null}]}

NoCall == [called |-> FALSE, pts |-> <<>>, updated |-> <<>>, correctCount |-> 0]

evaluateInit ==
    /\ evaluate_pts \in UNION {ColouredPoints(n) : n \in 0..MaxEvalPts}
    /\ evaluate_out = NoCall
    /\ evaluate_prev = NoCall
    /\ evaluate_pc = "call"

evaluateIdle ==
    /\ evaluate_pts = <<>>
    /\ evaluate_out = NoCall
    /\ evaluate_prev = NoCall
    /\ evaluate_pc = "idle"

\* a call of evaluate on evaluate_pts
evaluateCall ==
    /\ evaluate_pc = "call"
    /\ LET r == evaluate(evaluate_pts)
       IN  evaluate_out' = [called |-> TRUE, pts |-> evaluate_pts,
                            updated |-> r.updated,
                            correctCount |-> r.correctCount]
    /\ evaluate_pc' = "returned"
    /\ UNCHANGED <<evaluate_pts, evaluate_prev>>
    /\ UNCHANGED notEvaluate

\* one point of the evaluated points is given another palette colour and
\* the points are evaluated again
evaluateRecolour ==
    /\ evaluate_pc = "returned"
    /\ ~evaluate_prev.called
    /\ \E i \in 1..Len(evaluate_pts), c \in paletteColours :
           /\ c # evaluate_pts[i].colour
           /\ evaluate_pts' = [evaluate_pts EXCEPT ![i].colour = c]
    /\ evaluate_prev' = evaluate_out
    /\ evaluate_out' = NoCall
    /\ evaluate_pc' = "call"
    /\ UNCHANGED notEvaluate

evaluateNext ==
    \/ evaluateCall
    \/ evaluateRecolour

-----------------------------------------------------------------------------
(* 32-bit words, as the two 16-bit halves [hi, lo] *)

Half == 65536

Word(hi, lo) == [hi |-> hi, lo |-> lo]

WAdd(a, b) ==
    LET lo == a.lo + b.lo
    IN  Word((a.hi + b.hi + lo \div Half) % Half, lo % Half)

RECURSIVE Xor16(_, _)
Xor16(a, b) ==
    IF a = 0 THEN b
    ELSE IF b = 0 THEN a
    ELSE ((a + b) % 2) + 2 * Xor16(a \div 2, b \div 2)

RECURSIVE Or16(_, _)
Or16(a, b) ==
    IF a = 0 THEN b
    ELSE IF b = 0 THEN a
    ELSE (IF a % 2 = 1 \/ b % 2 = 1 THEN 1 ELSE 0) + 2 * Or16(a \div 2, b \div 2)

WXor(a, b) == Word(Xor16(a.hi, b.hi), Xor16(a.lo, b.lo))

\* a | c for a constant c below 2^16
WOr(a, c) == Word(a.hi, Or16(a.lo, c))

\* a >>> k, 0 < k < 16
WShr(a, k) ==
    LET p == 2 ^ k
        q == 2 ^ (16 - k)
    IN  Word(a.hi \div p, (a.hi % p) * q + a.lo \div p)

\* the low 16 bits of the product of two 16-bit numbers
Mul16(x, y) ==
    LET x0 == x % 256
        x1 == x \div 256
        y0 == y % 256
        y1 == y \div 256
    IN  (x0 * y0 + ((x1 * y0 + x0 * y1) % 256) * 256) % Half

\* Math.imul: the low 32 bits of the product
Imul(a, b) ==
    LET x0 == a.lo % 256
        x1 == a.lo \div 256
        y0 == b.lo % 256
        y1 == b.lo \div 256
        s == x0 * y0 + (x1 * y0 + x0 * y1) * 256
    IN  Word((s \div Half + x1 * y1 + Mul16(a.hi, b.lo) + Mul16(a.lo, b.hi)) % Half,
             s % Half)

-----------------------------------------------------------------------------
(* IntroductoryLesson: mulberry32, runKMeans, generatePoints *)

\* 0x6d2b79f5
MulberryStep == Word(27947, 31221)

\* lines 79-84: one call of the function mulberry32(a) returns; the closure
\* variable a becomes .a, the numerator of the returned fraction of 2^32 is
\* .out.  (a is kept modulo 2^32: it is only read through 32-bit operators.)
rnd(a) ==
    LET a1 == WAdd(a, MulberryStep)
        t1 == Imul(WXor(a1, WShr(a1, 15)), WOr(a1, 1))
        t2 == WXor(t1, WAdd(t1, Imul(WXor(t1, WShr(t1, 7)), WOr(t1, 61))))
    IN  [a |-> a1, out |-> WXor(t2, WShr(t2, 14))]

X_MAX == 430
Y_MAX == 270
PULL == Rat(3, 5)
\* line 170: runKMeans(raw, k, 8, rnd)
KMeansIters == 8

\* rnd() * (max - min) + min, with rnd() cut to its leading RndBits bits
Scaled(out, min, max) ==
    LET q == out.hi \div (2 ^ (16 - RndBits))
    IN  RAdd(Rat(q * (max - min), 2 ^ RndBits), RInt(min))

clamp(v, min, max) ==
    LET low == IF RLt(v, RInt(min)) THEN RInt(min) ELSE v
    IN  IF RLt(RInt(max), low) THEN RInt(max) ELSE low

\* line 106: the comparator () => 0.5 - rnd()
Comparator(a) ==
    LET d == rnd(a)
    IN  [a |-> d.a,
         sign |-> IF d.out.hi < 32768 THEN 1
                  ELSE IF d.out = Word(32768, 0) THEN 0
                  ELSE -1]

\* Array.prototype.sort with this comparator: the order is left to the
\* engine, which sorts by one fixed procedure
SortKinds == {"insertion", "binaryInsertion"}

\* straight insertion: the number of elements of the sorted prefix of
\* length j that stay before the pivot
RECURSIVE StraightPos(_, _)
StraightPos(j, a) ==
    IF j = 0 THEN [a |-> a, pos |-> 0]
    ELSE LET c == Comparator(a)
         IN  IF c.sign > 0 THEN StraightPos(j - 1, c.a)
             ELSE [a |-> c.a, pos |-> j]

\* binary insertion: the same, found by bisection of left..right
RECURSIVE BinaryPos(_, _, _)
BinaryPos(left, right, a) ==
    IF left >= right THEN [a |-> a, pos |-> left]
    ELSE LET mid == left + (right - left) \div 2
             c == Comparator(a)
         IN  IF c.sign < 0 THEN BinaryPos(left, mid, c.a)
             ELSE BinaryPos(mid + 1, right, c.a)

SqDist(p, c) ==
    LET dx == RSub(p.x, c.x)
        dy == RSub(p.y, c.y)
    IN  RAdd(RMul(dx, dx), RMul(dy, dy))

\* lines 118-126 and 175-183: the index of the first centre at the least
\* squared distance, 0 when there is no centre
Closest(p, centres) ==
    IF Len(centres) = 0 THEN 0
    ELSE (CHOOSE j \in 1..Len(centres) :
              /\ \A l \in 1..Len(centres) : RLeq(SqDist(p, centres[j]), SqDist(p, centres[l]))
              /\ \A l \in 1..(j - 1) : RLt(SqDist(p, centres[j]), SqDist(p, centres[l]))) - 1

\* lines 109-139: one iteration of the loop
KMeansStep(pts, centres) ==
    [i \in 1..Len(centres) |->
        LET keep == [j \in 1..Len(pts) |-> Closest(pts[j], centres) = i - 1]
            cnt == Cardinality({j \in 1..Len(pts) : keep[j]})
            xs == [j \in 1..Len(pts) |-> pts[j].x]
            ys == [j \in 1..Len(pts) |-> pts[j].y]
        IN  IF cnt > 0
            THEN [x |-> RDivInt(SumOver(xs, keep, Len(pts)), cnt),
                  y |-> RDivInt(SumOver(ys, keep, Len(pts)), cnt)]
            ELSE centres[i]]

\* the seed of line 198, and other seeds
Seeds == {Word(308, 65335)} \cup {Word(0, s) : s \in 1..MaxSeed}

NotGenerated == [returned |-> FALSE, points |-> <<>>]

generateInit ==
    /\ gen_n \in 0..MaxGenPts
    /\ gen_k \in 1..MaxGenK
    /\ gen_seed \in Seeds
    /\ gen_sort \in SortKinds
    /\ gen_a = gen_seed
    /\ gen_raw = <<>>
    /\ gen_arr = <<>>
    /\ gen_i = 0
    /\ gen_centres = <<>>
    /\ gen_t = 0
    /\ gen_out = NotGenerated
    /\ gen_first = NotGenerated
    /\ gen_pc = "raw"

generateIdle ==
    /\ gen_n = 0
    /\ gen_k = CLUSTER_COUNT
    /\ gen_seed = Word(308, 65335)
    /\ gen_sort = "insertion"
    /\ gen_a = gen_seed
    /\ gen_raw = <<>>
    /\ gen_arr = <<>>
    /\ gen_i = 0
    /\ gen_centres = <<>>
    /\ gen_t = 0
    /\ gen_out = NotGenerated
    /\ gen_first = NotGenerated
    /\ gen_pc = "idle"

\* lines 164-167: the next raw point, x drawn before y
generateRaw ==
    /\ gen_pc = "raw"
    /\ Len(gen_raw) < gen_n
    /\ LET dx == rnd(gen_a)
           dy == rnd(dx.a)
       IN  /\ gen_raw' = Append(gen_raw, [x |-> Scaled(dx.out, X_MIN, X_MAX),
                                          y |-> Scaled(dy.out, Y_MIN, Y_MAX)])
           /\ gen_a' = dy.a
    /\ UNCHANGED <<gen_n, gen_k, gen_seed, gen_sort, gen_arr, gen_i,
                   gen_centres, gen_t, gen_out, gen_first, gen_pc>>
    /\ UNCHANGED notGenerate

\* lines 170 and 105: runKMeans is called and copies pts for the sort
sortBegin ==
    /\ gen_pc = "raw"
    /\ Len(gen_raw) = gen_n
    /\ gen_arr' = gen_raw
    /\ gen_i' = 2
    /\ gen_pc' = "sort"
    /\ UNCHANGED <<gen_n, gen_k, gen_seed, gen_sort, gen_a, gen_raw,
                   gen_centres, gen_t, gen_out, gen_first>>
    /\ UNCHANGED notGenerate

\* line 106: the sort places its next element
sortInsert ==
    /\ gen_pc = "sort"
    /\ gen_i <= Len(gen_arr)
    /\ LET p == IF gen_sort = "insertion" THEN StraightPos(gen_i - 1, gen_a)
                ELSE BinaryPos(0, gen_i - 1, gen_a)
       IN  /\ gen_arr' = SubSeq(gen_arr, 1, p.pos) \o <<gen_arr[gen_i]>>
                             \o SubSeq(gen_arr, p.pos + 1, gen_i - 1)
                             \o SubSeq(gen_arr, gen_i + 1, Len(gen_arr))
           /\ gen_a' = p.a
    /\ gen_i' = gen_i + 1
    /\ UNCHANGED <<gen_n, gen_k, gen_seed, gen_sort, gen_raw, gen_centres,
                   gen_t, gen_out, gen_first, gen_pc>>
    /\ UNCHANGED notGenerate

\* lines 107-108: the first k sorted points become the centres
sortEnd ==
    /\ gen_pc = "sort"
    /\ gen_i > Len(gen_arr)
    /\ gen_centres' =
           SubSeq(gen_arr, 1, IF gen_k < Len(gen_arr) THEN gen_k ELSE Len(gen_arr))
    /\ gen_t' = 0
    /\ gen_pc' = "lloyd"
    /\ UNCHANGED <<gen_n, gen_k, gen_seed, gen_sort, gen_a, gen_raw, gen_arr,
                   gen_i, gen_out, gen_first>>
    /\ UNCHANGED notGenerate

\* lines 110-139: one iteration of runKMeans
runKMeansStep ==
    /\ gen_pc = "lloyd"
    /\ gen_t < KMeansIters
    /\ gen_centres' = KMeansStep(gen_raw, gen_centres)
    /\ gen_t' = gen_t + 1
    /\ UNCHANGED <<gen_n, gen_k, gen_seed, gen_sort, gen_a, gen_raw, gen_arr,
                   gen_i, gen_out, gen_first, gen_pc>>
    /\ UNCHANGED notGenerate

\* lines 142 and 173-194: runKMeans returns the centres, every raw point is
\* pulled toward its nearest centre and generatePoints returns
generateReturn ==
    /\ gen_pc = "lloyd"
    /\ gen_t = KMeansIters
    /\ gen_out' =
           [returned |-> TRUE,
            points |->
                [i \in 1..Len(gen_raw) |->
                    LET p == gen_raw[i]
                        cluster == Closest(p, gen_centres)
                        c == gen_centres[cluster + 1]
                    IN  [id |-> i - 1,
                         x |-> clamp(RAdd(p.x, RMul(RSub(c.x, p.x), PULL)),
                                     X_MIN, X_MAX),
                         y |-> clamp(RAdd(p.y, RMul(RSub(c.y, p.y), PULL)),
                                     Y_MIN, Y_MAX),
                         colour |-> Null,
                         clusterId |-> cluster]]]
    /\ gen_pc' = "returned"
    /\ UNCHANGED <<gen_n, gen_k, gen_seed, gen_sort, gen_a, gen_raw, gen_arr,
                   gen_i, gen_centres, gen_t, gen_first>>
    /\ UNCHANGED notGenerate

\* generatePoints(n, k, mulberry32(seed)) once more: mulberry32 makes a new
\* closure, the call makes its locals anew
generateAgain_SameGenerator ==
    /\ gen_pc = "returned"
    /\ ~gen_first.returned
    /\ gen_first' = gen_out
    /\ gen_out' = NotGenerated
    /\ gen_raw' = <<>>
    /\ gen_arr' = <<>>
    /\ gen_i' = 0
    /\ gen_centres' = <<>>
    /\ gen_t' = 0
    /\ gen_pc' = "raw"
    /\ UNCHANGED <<gen_n, gen_k, gen_seed, gen_sort, gen_a>>
    /\ UNCHANGED notGenerate
generateAgain ==
    /\ gen_pc = "returned"
    /\ ~gen_first.returned
    /\ gen_first' = gen_out
    /\ gen_out' = NotGenerated
    /\ gen_a' = gen_seed
    /\ gen_raw' = <<>>
    /\ gen_arr' = <<>>
    /\ gen_i' = 0
    /\ gen_centres' = <<>>
    /\ gen_t' = 0
    /\ gen_pc' = "raw"
    /\ UNCHANGED <<gen_n, gen_k, gen_seed, gen_sort>>
    /\ UNCHANGED notGenerate

generateNext ==
    \/ generateRaw
    \/ sortBegin
    \/ sortInsert
    \/ sortEnd
    \/ runKMeansStep
    \/ generateReturn
    \/ generateAgain

-----------------------------------------------------------------------------
(* IntroductoryLesson inside App: the exercise session *)

LessonKey == {"intro", "intermediate", "advanced"}

SnackbarClosed == [open |-> FALSE, message |-> "", severity |-> "success"]
NotReady == [open |-> TRUE, message |-> "Please colour every point first!",
             severity |-> "error"]
NoResult == [attempted |-> FALSE, success |-> FALSE, correctCount |-> 0]

\* useState initial values, lines 212-228: the state of a component that
\* has just been mounted
introMounted ==
    /\ intro_selectedColour' = Null
    /\ intro_points' = INITIAL_POINTS
    /\ intro_snackbar' = SnackbarClosed
    /\ intro_congratsOpen' = FALSE
    /\ intro_result' = NoResult

introInit ==
    /\ INITIAL_POINTS \in GeneratedPoints(IntroPts)
    /\ app_activeLesson = "intro"
    /\ intro_selectedColour = Null
    /\ intro_points = INITIAL_POINTS
    /\ intro_snackbar = SnackbarClosed
    /\ intro_congratsOpen = FALSE
    /\ intro_result = NoResult
    /\ intro_timers = 0

\* the app shows the advanced lesson, the introductory lesson was never used
introIdle ==
    /\ INITIAL_POINTS = <<>>
    /\ app_activeLesson = "advanced"
    /\ intro_selectedColour = Null
    /\ intro_points = <<>>
    /\ intro_snackbar = SnackbarClosed
    /\ intro_congratsOpen = FALSE
    /\ intro_result = NoResult
    /\ intro_timers = 0

\* the ids of the points drawn on the canvas, line 469
IntroIds == 0..(IntroPts - 1)

\* palette swatch, line 399
selectColour(c) ==
    /\ app_activeLesson = "intro"
    /\ intro_selectedColour' = c
    /\ UNCHANGED <<INITIAL_POINTS, app_activeLesson, intro_points,
                   intro_snackbar, intro_congratsOpen, intro_result,
                   intro_timers>>
    /\ UNCHANGED notIntro

\* lines 266-273
handlePointClick_KeepsVerdict(id) ==
    /\ app_activeLesson = "intro"
    /\ IF intro_selectedColour = Null
       THEN UNCHANGED intro_points
       ELSE intro_points' =
                [i \in 1..Len(intro_points) |->
                    IF intro_points[i].id = id
                    THEN [intro_points[i] EXCEPT !.colour = intro_selectedColour]
                    ELSE intro_points[i]]
    /\ UNCHANGED <<INITIAL_POINTS, app_activeLesson, intro_selectedColour,
                   intro_snackbar, intro_congratsOpen, intro_result,
                   intro_timers>>
    /\ UNCHANGED notIntro
handlePointClick(id) ==
    /\ app_activeLesson = "intro"
    /\ IF intro_selectedColour = Null
       THEN UNCHANGED intro_points
       ELSE intro_points' =
                [i \in 1..Len(intro_points) |->
                    IF intro_points[i].id = id
                    THEN [intro_points[i] EXCEPT
                              !.colour = intro_selectedColour,
                              !.isCorrect = Unknown]
                    ELSE intro_points[i]]
    /\ UNCHANGED <<INITIAL_POINTS, app_activeLesson, intro_selectedColour,
                   intro_snackbar, intro_congratsOpen, intro_result,
                   intro_timers>>
    /\ UNCHANGED notIntro

\* lines 276-282
handleRefresh_Regenerates ==
    /\ app_activeLesson = "intro"
    /\ intro_selectedColour' = Null
    /\ intro_points' \in GeneratedPoints(IntroPts)
    /\ intro_result' = NoResult
    /\ UNCHANGED <<INITIAL_POINTS, app_activeLesson, intro_snackbar,
                   intro_congratsOpen, intro_timers>>
    /\ UNCHANGED notIntro
handleRefresh ==
    /\ app_activeLesson = "intro"
    /\ intro_selectedColour' = Null
    /\ intro_points' =
           [i \in 1..Len(intro_points) |->
               [intro_points[i] EXCEPT !.colour = Null, !.isCorrect = Unknown]]
    /\ intro_result' = NoResult
    /\ UNCHANGED <<INITIAL_POINTS, app_activeLesson, intro_snackbar,
                   intro_congratsOpen, intro_timers>>
    /\ UNCHANGED notIntro

\* lines 284-309
handleConfirm_NoGuard ==
    /\ app_activeLesson = "intro"
    /\ LET r == evaluate(intro_points)
           allCorrect == r.correctCount = Len(intro_points)
       IN  /\ allCorrect => intro_timers < MaxTimers
           /\ intro_points' = r.updated
           /\ intro_result' = [attempted |-> TRUE, success |-> allCorrect,
                               correctCount |-> r.correctCount]
           /\ intro_congratsOpen' = (allCorrect \/ intro_congratsOpen)
           /\ intro_timers' = intro_timers + (IF allCorrect THEN 1 ELSE 0)
           /\ UNCHANGED intro_snackbar
    /\ UNCHANGED <<INITIAL_POINTS, app_activeLesson, intro_selectedColour>>
    /\ UNCHANGED notIntro
handleConfirm ==
    /\ app_activeLesson = "intro"
    /\ IF \E i \in 1..Len(intro_points) : intro_points[i].colour = Null
       THEN /\ intro_snackbar' = NotReady
            /\ UNCHANGED <<intro_points, intro_result, intro_congratsOpen,
                           intro_timers>>
       ELSE LET r == evaluate(intro_points)
                allCorrect == r.correctCount = Len(intro_points)
            IN  /\ allCorrect => intro_timers < MaxTimers
                /\ intro_points' = r.updated
                /\ intro_result' = [attempted |-> TRUE, success |-> allCorrect,
                                    correctCount |-> r.correctCount]
                /\ intro_congratsOpen' = (allCorrect \/ intro_congratsOpen)
                /\ intro_timers' = intro_timers + (IF allCorrect THEN 1 ELSE 0)
                /\ UNCHANGED intro_snackbar
    /\ UNCHANGED <<INITIAL_POINTS, app_activeLesson, intro_selectedColour>>
    /\ UNCHANGED notIntro

\* Snackbar onClose, lines 495-496
snackbarClose ==
    /\ app_activeLesson = "intro"
    /\ intro_snackbar.open
    /\ intro_snackbar' = [intro_snackbar EXCEPT !.open = FALSE]
    /\ UNCHANGED <<INITIAL_POINTS, app_activeLesson, intro_selectedColour,
                   intro_points, intro_congratsOpen, intro_result,
                   intro_timers>>
    /\ UNCHANGED notIntro

\* congratulations Snackbar onClose, lines 507-508
congratsClose ==
    /\ app_activeLesson = "intro"
    /\ intro_congratsOpen
    /\ intro_congratsOpen' = FALSE
    /\ UNCHANGED <<INITIAL_POINTS, app_activeLesson, intro_selectedColour,
                   intro_points, intro_snackbar, intro_result, intro_timers>>
    /\ UNCHANGED notIntro

\* App.tsx setActiveLesson(l): the lesson shown before is unmounted and its
\* state is lost, the lesson l is mounted with its initial state
setActiveLesson(l) ==
    /\ app_activeLesson' = l
    /\ IF l = app_activeLesson
       THEN UNCHANGED <<intro_selectedColour, intro_points, intro_snackbar,
                        intro_congratsOpen, intro_result>>
       ELSE introMounted
    /\ UNCHANGED <<INITIAL_POINTS, intro_timers>>

\* the lesson buttons, App.tsx 39-56
navigate(l) ==
    /\ setActiveLesson(l)
    /\ UNCHANGED notIntro

\* the callback of setTimeout, lines 305-307, with onComplete of App.tsx 17
onCompleteTimer ==
    /\ intro_timers > 0
    /\ intro_timers' = intro_timers - 1
    /\ app_activeLesson' = "intermediate"
    /\ IF app_activeLesson = "intermediate"
       THEN UNCHANGED <<intro_selectedColour, intro_points, intro_snackbar,
                        intro_congratsOpen, intro_result>>
       ELSE introMounted
    /\ UNCHANGED INITIAL_POINTS
    /\ UNCHANGED notIntro

introNext ==
    \/ \E c \in paletteColours : selectColour(c)
    \/ \E id \in IntroIds : handlePointClick(id)
    \/ handleRefresh
    \/ handleConfirm
    \/ snackbarClose
    \/ congratsClose
    \/ \E l \in LessonKey : navigate(l)
    \/ onCompleteTimer

-----------------------------------------------------------------------------
(* Calls of calcDistance, and the quiz of IntermediateLesson that compares  *)
(* an answer with calcDistance.  The effect of lines 286-299 (result,       *)
(* congratulation, onComplete) is not part of the quiz check.               *)

NotCalled == [called |-> FALSE, val |-> Exact(RInt(0))]
Returned(d) == [called |-> TRUE, val |-> d]

distInit ==
    /\ dist_a \in {Point(x, y) : x \in 0..MaxCoord, y \in 0..MaxCoord}
    /\ dist_b \in {Point(x, y) : x \in 0..MaxCoord, y \in 0..MaxCoord}
    /\ dist_d = [m \in Norms |-> NotCalled]
    /\ dist_r = [m \in Norms |-> NotCalled]

distIdle ==
    /\ dist_a = Point(0, 0)
    /\ dist_b = Point(0, 0)
    /\ dist_d = [m \in Norms |-> NotCalled]
    /\ dist_r = [m \in Norms |-> NotCalled]

\* calcDistance(a, b, norm)
calcDistanceCall(norm) ==
    /\ ~dist_d[norm].called
    /\ dist_d' = [dist_d EXCEPT ![norm] = Returned(calcDistance(dist_a, dist_b, norm))]
    /\ UNCHANGED <<dist_a, dist_b, dist_r>>
    /\ UNCHANGED quizVars
    /\ UNCHANGED notDist

\* calcDistance(b, a, norm)
calcDistanceSwapped(norm) ==
    /\ dist_d[norm].called
    /\ ~dist_r[norm].called
    /\ dist_r' = [dist_r EXCEPT ![norm] = Returned(calcDistance(dist_b, dist_a, norm))]
    /\ UNCHANGED <<dist_a, dist_b, dist_d>>
    /\ UNCHANGED quizVars
    /\ UNCHANGED notDist

\* IntermediateLesson.tsx 302-309
QUIZ_POINTS ==
    [L1 |-> [A |-> Point(2, 5), B |-> Point(6, 1)],
     L2 |-> [A |-> Point(3, 3), B |-> Point(7, 6)],
     Linf |-> [A |-> Point(0, 2), B |-> Point(4, 5)]]

\* line 276: 1e-2
tolerance == Rat(1, 100)

\* what the learner can have typed
QuizTexts == {"", "abc", "3", "4", "5", "8", "8.005", "8.02"}

NaN == [nan |-> TRUE, val |-> RInt(0)]
Number(v) == [nan |-> FALSE, val |-> v]

parseFloat(text) ==
    CASE text = "3" -> Number(RInt(3))
      [] text = "4" -> Number(RInt(4))
      [] text = "5" -> Number(RInt(5))
      [] text = "8" -> Number(RInt(8))
      [] text = "8.005" -> Number(Rat(1601, 200))
      [] text = "8.02" -> Number(Rat(401, 50))
      [] text = "0.8" -> Number(Rat(4, 5))
      [] text = "1.5" -> Number(Rat(3, 2))
      [] OTHER -> NaN

\* line 315: Math.abs(userVal - truth) <= tolerance, for userVal >= 0
WithinTolerance(userVal, truth) ==
    LET lower == RSub(userVal, tolerance)
        upper == RAdd(userVal, tolerance)
    IN  /\ DLeq(truth, Exact(upper))
        /\ RLeq(lower, RInt(0)) \/ DLeq(Exact(lower), truth)

quizInit ==
    /\ quiz_normKey = "L1"
    /\ quiz_unlockedNorms = <<"L1">>
    /\ quiz_inputs = [m \in Norms |-> ""]
    /\ quiz_correctFlags = [m \in Norms |-> FALSE]
    /\ quiz_attemptedFlags = [m \in Norms |-> FALSE]
    /\ quiz_truth = [m \in Norms |-> NotCalled]

\* the lesson is not shown
quizIdle ==
    /\ quiz_normKey = "L1"
    /\ quiz_unlockedNorms = <<>>
    /\ quiz_inputs = [m \in Norms |-> ""]
    /\ quiz_correctFlags = [m \in Norms |-> FALSE]
    /\ quiz_attemptedFlags = [m \in Norms |-> FALSE]
    /\ quiz_truth = [m \in Norms |-> NotCalled]

\* ToggleButtonGroup, lines 536-545
setNormKey(v) ==
    /\ InSeq(v, quiz_unlockedNorms)
    /\ quiz_normKey' = v
    /\ UNCHANGED <<quiz_unlockedNorms, quiz_inputs, quiz_correctFlags,
                   quiz_attemptedFlags, quiz_truth>>
    /\ UNCHANGED distVars
    /\ UNCHANGED notDist

\* TextField onChange, lines 419-427
setQuizInput(text) ==
    /\ quiz_unlockedNorms # <<>>
    /\ ~quiz_correctFlags[quiz_normKey]
    /\ quiz_inputs' = [quiz_inputs EXCEPT ![quiz_normKey] = text]
    /\ UNCHANGED <<quiz_normKey, quiz_unlockedNorms, quiz_correctFlags,
                   quiz_attemptedFlags, quiz_truth>>
    /\ UNCHANGED distVars
    /\ UNCHANGED notDist

\* lines 311-323, from the Check button of lines 429-435
handleQuizSubmit(key) ==
    /\ quiz_unlockedNorms # <<>>
    /\ key = quiz_normKey
    /\ ~quiz_correctFlags[key]
    /\ quiz_inputs[key] # ""
    /\ LET userVal == parseFloat(quiz_inputs[key])
           truth == calcDistance(QUIZ_POINTS[key].A, QUIZ_POINTS[key].B, key)
           isOk == WithinTolerance(userVal.val, truth)
       IN  IF userVal.nan
           THEN UNCHANGED <<quiz_correctFlags, quiz_attemptedFlags,
                            quiz_unlockedNorms, quiz_truth>>
           ELSE /\ quiz_truth' = [quiz_truth EXCEPT ![key] = Returned(truth)]
                /\ quiz_correctFlags' = [quiz_correctFlags EXCEPT ![key] = isOk]
                /\ quiz_attemptedFlags' = [quiz_attemptedFlags EXCEPT ![key] = TRUE]
                /\ quiz_unlockedNorms' =
                       IF isOk /\ key = "L1" /\ ~InSeq("L2", quiz_unlockedNorms)
                       THEN Append(quiz_unlockedNorms, "L2")
                       ELSE IF isOk /\ key = "L2" /\ ~InSeq("Linf", quiz_unlockedNorms)
                       THEN Append(quiz_unlockedNorms, "Linf")
                       ELSE quiz_unlockedNorms
    /\ UNCHANGED <<quiz_normKey, quiz_inputs>>
    /\ UNCHANGED distVars
    /\ UNCHANGED notDist

distNext ==
    \/ \E norm \in Norms : calcDistanceCall(norm)
    \/ \E norm \in Norms : calcDistanceSwapped(norm)
    \/ \E v \in Norms : setNormKey(v)
    \/ \E text \in QuizTexts : setQuizInput(text)
    \/ \E key \in Norms : handleQuizSubmit(key)

-----------------------------------------------------------------------------
(* AdvancedLesson: the component that runs kMeans and dbscan on a dataset  *)
(* and keeps the saved runs (lines 246-343)                                *)

\* line 107: maxIter = 50
DefaultMaxIter == 50

RECURSIVE kMeansLoop(_, _, _, _, _)
\* lines 130-154: the labels when the loop is left
kMeansLoop(points, norm, labels, centroids, iter) ==
    IF ~(iter < DefaultMaxIter) THEN labels
    ELSE LET assigned == Assign(points, centroids, norm)
         IN  IF assigned = labels THEN labels
             ELSE CHOOSE out \in
                      {kMeansLoop(points, norm, assigned, updated, iter + 1) :
                           updated \in {Update(points, assigned, centroids)}} :
                      TRUE

\* lines 102-156, for an integer k > 0 and initialCentroids of length k
kMeans(points, k, norm, initialCentroids) ==
    Labeled(points,
            kMeansLoop(points, norm, Zeros(Len(points)), initialCentroids, 0))

RECURSIVE dbscanWhile(_, _, _, _, _, _, _)
\* lines 185-198: the labels when the queue is empty
dbscanWhile(points, eps, minPts, norm, labels, seedSet, clusterId) ==
    IF ~(Len(seedSet) > 0) THEN labels
    ELSE LET current == Head(seedSet)
             rest == Tail(seedSet)
             labelled == [labels EXCEPT ![current] = clusterId]
             currentNeighbors == regionQuery(points, eps, norm, current)
             fresh(n) == ~InSeq(n, rest) /\ labelled[n] = Unvisited
             next ==
                 IF labels[current] = Noise THEN <<labelled, rest>>
                 ELSE IF labels[current] # Unvisited THEN <<labels, rest>>
                 ELSE <<labelled,
                        IF IsDense(currentNeighbors, minPts)
                        THEN rest \o SelectSeq(currentNeighbors, fresh)
                        ELSE rest>>
         IN  CHOOSE out \in
                 {dbscanWhile(points, eps, minPts, norm, n[1], n[2], clusterId) :
                      n \in {next}} : TRUE

RECURSIVE dbscanFor(_, _, _, _, _, _, _)
\* lines 176-200: the labels when the outer loop is left
dbscanFor(points, eps, minPts, norm, labels, i, clusterId) ==
    IF ~(i <= Len(points)) THEN labels
    ELSE IF labels[i] # Unvisited
    THEN dbscanFor(points, eps, minPts, norm, labels, i + 1, clusterId)
    ELSE LET neighbors == regionQuery(points, eps, norm, i)
             other(n) == n # i
         IN  IF ~IsDense(neighbors, minPts)
             THEN CHOOSE out \in
                      {dbscanFor(points, eps, minPts, norm, l, i + 1, clusterId) :
                           l \in {[labels EXCEPT ![i] = Noise]}} : TRUE
             ELSE CHOOSE out \in
                      {dbscanFor(points, eps, minPts, norm, l, i + 1, clusterId + 1) :
                           l \in {dbscanWhile(points, eps, minPts, norm,
                                              [labels EXCEPT ![i] = clusterId],
                                              SelectSeq(neighbors, other),
                                              clusterId)}} : TRUE

\* lines 159-202
dbscan(points, eps, minPts, norm) ==
    Labeled(points,
            dbscanFor(points, eps, minPts, norm,
                      [j \in 1..Len(points) |-> Unvisited], 1, 0))

\* lines 29-37
COLORS == <<"#1976d2", "#d32f2f", "#388e3c", "#fbc02d", "#7b1fa2", "#0097a7",
            "#5d4037">>

DatasetKey == {"dataset1", "dataset2"}
MethodKey == {"KMeans", "DBSCAN"}

\* lines 205-220, with AdvPts points on a line for each dataset in place of
\* the circles of 120 and 240 points; the datasets share no point
DATASETS ==
    [dataset1 |-> [i \in 1..AdvPts |-> Point(i - 1, 0)],
     dataset2 |-> [i \in 1..AdvPts |-> Point(2 * (i - 1), 1)]]

\* what the k field can hold: empty, numbers, a number above every dataset
KTexts == {"", "1", "2", "9"}

\* parseInt(text, 10)
parseInt(text) ==
    CASE text = "1" -> Number(RInt(1))
      [] text = "2" -> Number(RInt(2))
      [] text = "4" -> Number(RInt(4))
      [] text = "9" -> Number(RInt(9))
      [] OTHER -> NaN

\* Math.max(a, b): NaN when an argument is NaN
MathMax(a, b) ==
    IF a.nan \/ b.nan THEN NaN
    ELSE IF RLt(a.val, b.val) THEN b ELSE a

\* line 280
MaxRunsWarning ==
    "You can save at most three results per dataset. Please delete some before adding new ones."

\* lines 294-302: the arrays the rejection sampling can end with; the loop
\* condition centroids.length < k is false at once for k = NaN, and the loop
\* never ends when k exceeds the number of points
Samples(pts, k) ==
    IF k.nan THEN {<<>>}
    ELSE {[j \in 1..k.val.n |-> pts[idx[j]]] :
              idx \in {f \in [1..k.val.n -> 1..Len(pts)] :
                           \A a, b \in 1..k.val.n : a # b => f[a] # f[b]}}

\* kMeans(pts, NaN, norm, []) throws: lines 109, 113 and 118 compare with NaN
\* and are false, so there are no centroids; line 135 gives the label -1;
\* line 144 makes no sums and line 147 reads sums[-1].x
kMeansThrows(pts, k) == k.nan /\ Len(pts) > 0

\* the k values of the cache keys and of the history
KValues == {MathMax(Number(RInt(1)), parseInt(t)) : t \in KTexts}

\* initialCentroidsRef.current = null, centroidKeyRef.current = ""
NoCentroids == [given |-> FALSE, val |-> <<>>]
NoKey == [dataset |-> "", k |-> NaN]
\* line 291: `${datasetKey}-${k}`
CacheKey(datasetKey, k) == [dataset |-> datasetKey, k |-> k]
\* no K-Means run yet
NeverRun == [called |-> FALSE, k |-> NaN]
NotUsed == [k \in KValues |-> NoCentroids]

advInit ==
    /\ adv_datasetKey = "dataset1"
    /\ adv_methodKey = "KMeans"
    /\ adv_normKey = "L2"
    /\ adv_kInput = "2"
    /\ adv_epsInput = "0.8"
    /\ adv_minPtsInput = "4"
    /\ adv_runs = <<>>
    /\ adv_warning = ""
    /\ adv_initialCentroids = NoCentroids
    /\ adv_centroidKey = NoKey
    /\ adv_ids = 0
    /\ adv_used = NotUsed
    /\ adv_last = NeverRun

\* the advanced lesson is not used: its state stays as it is first rendered
advIdle == advInit

\* line 278
ExistingCount(runs, datasetKey) ==
    Cardinality({r \in 1..Len(runs) : runs[r].dataset = datasetKey})

\* lines 316-329: the run that setRuns appends to prev
SavedRun(prev, id, dataset, method, paramsDesc, norm, result) ==
    [id |-> id, dataset |-> dataset, method |-> method,
     paramsDesc |-> paramsDesc, norm |-> norm, points |-> result,
     visible |-> TRUE, colorSeed |-> Len(prev) % Len(COLORS),
     offsetIndex |-> Len(prev) % 9]

\* line 292: the cache is for another key, or empty
NeedsSampling_Always(centroidKey, cacheKey, cached) == TRUE
NeedsSampling(centroidKey, cacheKey, cached) ==
    centroidKey # cacheKey \/ ~cached.given

\* lines 276-331: the button Confirm & Run
handleRun ==
    /\ IF ExistingCount(adv_runs, adv_datasetKey) >= 3
       THEN \* lines 279-282
            /\ adv_warning' = MaxRunsWarning
            /\ UNCHANGED <<adv_runs, adv_initialCentroids, adv_centroidKey,
                           adv_ids, adv_used, adv_last>>
       ELSE LET pts == DATASETS[adv_datasetKey]
            IN  IF adv_methodKey = "KMeans"
                THEN \* lines 290-307
                     LET k == MathMax(Number(RInt(1)), parseInt(adv_kInput))
                         cacheKey == CacheKey(adv_datasetKey, k)
                     IN  \E centroids \in
                             (IF NeedsSampling(adv_centroidKey, cacheKey,
                                               adv_initialCentroids)
                              THEN Samples(pts, k)
                              ELSE {adv_initialCentroids.val}) :
                             /\ adv_initialCentroids' = Given(centroids)
                             /\ adv_centroidKey' = cacheKey
                             /\ adv_used' = [adv_used EXCEPT
                                                ![k] = Given(centroids)]
                             /\ adv_last' = [called |-> TRUE, k |-> k]
                             /\ IF kMeansThrows(pts, k)
                                THEN \* the handler ends at line 306
                                     UNCHANGED <<adv_runs, adv_warning, adv_ids>>
                                ELSE \* lines 316-330
                                     /\ adv_ids < MaxRunIds
                                     /\ adv_runs' = Append(adv_runs,
                                            SavedRun(adv_runs, adv_ids,
                                                adv_datasetKey, adv_methodKey,
                                                [k |-> k], adv_normKey,
                                                kMeans(pts, k.val.n, adv_normKey,
                                                       centroids)))
                                     /\ adv_warning' = ""
                                     /\ adv_ids' = adv_ids + 1
                ELSE \* lines 309-312 and 316-330
                     LET eps == MathMax(Number(Rat(1, 10000)),
                                        parseFloat(adv_epsInput))
                         minPts == MathMax(Number(RInt(1)),
                                           parseInt(adv_minPtsInput))
                     IN  /\ adv_ids < MaxRunIds
                         /\ adv_runs' = Append(adv_runs,
                                SavedRun(adv_runs, adv_ids, adv_datasetKey,
                                    adv_methodKey,
                                    [eps |-> eps, minPts |-> minPts],
                                    adv_normKey,
                                    dbscan(pts, eps.val, minPts.val.n,
                                           adv_normKey)))
                         /\ adv_warning' = ""
                         /\ adv_ids' = adv_ids + 1
                         /\ UNCHANGED <<adv_initialCentroids, adv_centroidKey,
                                        adv_used, adv_last>>
    /\ UNCHANGED <<adv_datasetKey, adv_methodKey, adv_normKey, adv_kInput,
                   adv_epsInput, adv_minPtsInput>>
    /\ UNCHANGED notAdv

\* the run ids given out so far
RunIds == 0..(MaxRunIds - 1)

\* the filter panel lists the runs of the dataset shown, lines 553-555
Listed(id) ==
    \E r \in 1..Len(adv_runs) :
        adv_runs[r].id = id /\ adv_runs[r].dataset = adv_datasetKey

\* lines 334-338
toggleRunVisibility(id) ==
    /\ Listed(id)
    /\ adv_runs' = [r \in 1..Len(adv_runs) |->
                       IF adv_runs[r].id = id
                       THEN [adv_runs[r] EXCEPT !.visible = ~@]
                       ELSE adv_runs[r]]
    /\ UNCHANGED <<adv_datasetKey, adv_methodKey, adv_normKey, adv_kInput,
                   adv_epsInput, adv_minPtsInput, adv_warning,
                   adv_initialCentroids, adv_centroidKey, adv_ids, adv_used,
                   adv_last>>
    /\ UNCHANGED notAdv

\* lines 341-343
deleteRun(id) ==
    /\ Listed(id)
    /\ LET keep(r) == r.id # id
       IN  adv_runs' = SelectSeq(adv_runs, keep)
    /\ UNCHANGED <<adv_datasetKey, adv_methodKey, adv_normKey, adv_kInput,
                   adv_epsInput, adv_minPtsInput, adv_warning,
                   adv_initialCentroids, adv_centroidKey, adv_ids, adv_used,
                   adv_last>>
    /\ UNCHANGED notAdv

\* line 389, and the effect of lines 269-273 that the new datasetKey sets off
setDatasetKey(v) ==
    /\ v # adv_datasetKey
    /\ adv_datasetKey' = v
    /\ adv_initialCentroids' = NoCentroids
    /\ adv_centroidKey' = NoKey
    /\ adv_warning' = ""
    /\ adv_used' = NotUsed
    /\ adv_last' = NeverRun
    /\ UNCHANGED <<adv_methodKey, adv_normKey, adv_kInput, adv_epsInput,
                   adv_minPtsInput, adv_runs, adv_ids>>
    /\ UNCHANGED notAdv

\* line 406
setMethodKey(v) ==
    /\ v # adv_methodKey
    /\ adv_methodKey' = v
    /\ UNCHANGED <<adv_datasetKey, adv_normKey, adv_kInput, adv_epsInput,
                   adv_minPtsInput, adv_runs, adv_warning,
                   adv_initialCentroids, adv_centroidKey, adv_ids, adv_used,
                   adv_last>>
    /\ UNCHANGED notAdv

\* line 443
setKInput(text) ==
    /\ text # adv_kInput
    /\ adv_kInput' = text
    /\ UNCHANGED <<adv_datasetKey, adv_methodKey, adv_normKey, adv_epsInput,
                   adv_minPtsInput, adv_runs, adv_warning,
                   adv_initialCentroids, adv_centroidKey, adv_ids, adv_used,
                   adv_last>>
    /\ UNCHANGED notAdv

advNext ==
    \/ handleRun
    \/ \E id \in RunIds : toggleRunVisibility(id)
    \/ \E id \in RunIds : deleteRun(id)
    \/ \E v \in DatasetKey : setDatasetKey(v)
    \/ \E v \in MethodKey : setMethodKey(v)
    \/ \E text \in KTexts : setKInput(text)

-----------------------------------------------------------------------------
(* Specifications: one call of dbscan; one call of kMeans; calls of evaluate;
   a session of the introductory lesson *)

InitDbscan ==
    dbscanInit /\ kMeansIdle /\ evaluateIdle /\ introIdle
    /\ distIdle /\ quizIdle
    /\ generateIdle
    /\ advIdle
SpecDbscan == InitDbscan /\ [][dbscanNext]_vars

InitKMeans ==
    kMeansInit /\ dbscanIdle /\ evaluateIdle /\ introIdle
    /\ distIdle /\ quizIdle
    /\ generateIdle
\* a call runs on: the loops of kMeans take their next step when there is one
    /\ advIdle
SpecKMeans == InitKMeans /\ [][kMeansNext]_vars /\ WF_vars(kMeansNext)

InitEvaluate ==
    evaluateInit /\ dbscanIdle /\ kMeansIdle /\ introIdle
    /\ distIdle /\ quizIdle
    /\ generateIdle
    /\ advIdle
SpecEvaluate == InitEvaluate /\ [][evaluateNext]_vars

InitIntro ==
    introInit /\ dbscanIdle /\ kMeansIdle /\ evaluateIdle
    /\ distIdle /\ quizIdle
    /\ generateIdle
    /\ advIdle
SpecIntro == InitIntro /\ [][introNext]_vars

InitDistance ==
    /\ (distInit /\ quizIdle) \/ (distIdle /\ quizInit)
    /\ dbscanIdle /\ kMeansIdle /\ evaluateIdle /\ introIdle /\ generateIdle
    /\ advIdle
SpecDistance == InitDistance /\ [][distNext]_vars

InitGenerate ==
    generateInit /\ dbscanIdle /\ kMeansIdle /\ evaluateIdle /\ introIdle
    /\ distIdle /\ quizIdle
    /\ advIdle
SpecGenerate == InitGenerate /\ [][generateNext]_vars

InitAdvanced ==
    advInit /\ dbscanIdle /\ kMeansIdle /\ evaluateIdle /\ introIdle
    /\ distIdle /\ quizIdle /\ generateIdle
SpecAdvanced == InitAdvanced /\ [][advNext]_vars

-----------------------------------------------------------------------------
(* Properties of dbscan *)

DbIdx == 1..Len(dbscan_points)
\* q is in the eps-neighbourhood of p
DbNear(p, q) ==
    DLeq(calcDistance(dbscan_points[p], dbscan_points[q], dbscan_norm),
         Exact(dbscan_eps))
\* a core point: its eps-neighbourhood, itself included, has >= minPts points
DbCore(p) == Cardinality({q \in DbIdx : DbNear(p, q)}) >= dbscan_minPts
\* p is farther than eps from every other input point
DbIsolated(p) == \A q \in DbIdx \ {p} : ~DbNear(p, q)

\* C1: a point returned with label -1 is not a core point and is not within
\* eps of any core point (every point within eps of a core point ends with a
\* cluster id >= 0).
C1_NoiseNotReachable ==
    dbscan_pc = "done" =>
        \A p \in DbIdx :
            dbscan_result[p].cluster = Noise =>
                /\ ~DbCore(p)
                /\ \A q \in DbIdx : DbCore(q) => ~DbNear(p, q)

\* C2 as stated: for every minPts >= 1 an isolated point is labelled -1.
C2_IsolatedIsNoise_Original ==
    dbscan_pc = "done" =>
        \A p \in DbIdx : DbIsolated(p) => dbscan_result[p].cluster = Noise

\* C2 amended: for every minPts >= 2 an isolated point is labelled -1; with
\* minPts = 1 it is a core point and is labelled with a cluster id of its own.
C2_IsolatedIsNoise ==
    dbscan_pc = "done" =>
        \A p \in DbIdx :
            DbIsolated(p) =>
                IF dbscan_minPts >= 2
                THEN dbscan_result[p].cluster = Noise
                ELSE /\ dbscan_result[p].cluster >= 0
                     /\ \A q \in DbIdx \ {p} : dbscan_result[q].cluster # dbscan_result[p].cluster

\* an isolated point beside a cluster, minPts >= 2, after the return
C2_Witness ==
    /\ dbscan_pc = "done"
    /\ dbscan_minPts >= 2
    /\ \E p, q \in DbIdx :
           /\ DbIsolated(p)
           /\ dbscan_result[p].cluster = Noise
           /\ dbscan_result[q].cluster >= 0

DbIds == {dbscan_result[p].cluster : p \in DbIdx} \ {Noise}

\* the core points returned with cluster id c
DbCoresOf(c) == {p \in DbIdx : DbCore(p) /\ dbscan_result[p].cluster = c}

\* C13: the cluster ids of the result are 0..m-1 for the number m of
\* clusters started; the point that started cluster c is the core point of
\* lowest index labelled c; clusters with lower ids were started at lower
\* indices.
C13_DiscoveryOrder ==
    dbscan_pc = "done" =>
        LET m == Len(dbscan_seeds)
        IN  /\ DbIds = 0..(m - 1)
            /\ \A c \in 0..(m - 1) :
                   /\ dbscan_seeds[c + 1] \in DbCoresOf(c)
                   /\ \A p \in DbCoresOf(c) : dbscan_seeds[c + 1] <= p
            /\ \A c, d \in 0..(m - 1) :
                   c < d => dbscan_seeds[c + 1] < dbscan_seeds[d + 1]

\* three clusters were returned, and a point of cluster 0 comes after the
\* point that started cluster 1
C13_Witness ==
    /\ dbscan_pc = "done"
    /\ Len(dbscan_seeds) >= 3
    /\ \E p \in DbIdx :
           /\ dbscan_result[p].cluster = 0
           /\ p > dbscan_seeds[2]

\* C14: the result has one point per input point, in input order, with the
\* input's coordinates; every label is -1 or an id below the number of
\* clusters the call created, never the marker -99.
C14_DbscanLabels ==
    dbscan_pc = "done" =>
        /\ Len(dbscan_result) = Len(dbscan_points)
        /\ \A p \in DbIdx :
               /\ dbscan_result[p].x = dbscan_points[p].x
               /\ dbscan_result[p].y = dbscan_points[p].y
               /\ dbscan_result[p].cluster # Unvisited
               /\ \/ dbscan_result[p].cluster = Noise
                  \/ dbscan_result[p].cluster \in 0..(Len(dbscan_seeds) - 1)
        /\ dbscan_clusterId = Len(dbscan_seeds)

\* a result over distinct points with a noise point and a clustered point
C14_Witness ==
    /\ dbscan_pc = "done"
    /\ Len(dbscan_points) >= 3
    /\ \E p, q \in DbIdx :
           /\ dbscan_points[p] # dbscan_points[q]
           /\ dbscan_result[p].cluster = Noise
           /\ dbscan_result[q].cluster = 0

\* what is left to do in a call: the unvisited points, then the length of
\* the queue, then the rest of the outer loop, then the return
DbRemaining ==
    LET n == Len(dbscan_points)
        unvisited == Cardinality({p \in DbIdx : dbscan_labels[p] = Unvisited})
    IN  ((unvisited * (n + 1) + Len(dbscan_seedSet)) * (n + 2)
             + (n + 1 - dbscan_i)) * 2
            + (IF dbscan_pc = "done" THEN 0 ELSE 1)

\* C23: a call terminates: every step of it leaves strictly less to do, what
\* is left is never negative, and a call that has not returned has a next
\* step.  During the call regionQuery is called at most once for each point,
\* and the queue seedSet never holds the same index twice.
C23_BoundedExpansion ==
    /\ [](/\ DbRemaining >= 0
          /\ dbscan_pc \in {"for", "while"} => ENABLED dbscanNext
          /\ \A p \in DbIdx : dbscan_queried[p] <= 1
          /\ \A a, b \in 1..Len(dbscan_seedSet) :
                 a # b => dbscan_seedSet[a] # dbscan_seedSet[b])
    /\ [][dbscan_earlier' = dbscan_earlier => DbRemaining' < DbRemaining]_vars

\* during an expansion: a core point q other than the seed has been expanded
\* while its neighbour p, a neighbour of the seed too, was already queued; p
\* is queued once and still unvisited
C23_Witness ==
    /\ dbscan_pc = "while"
    /\ \E p, q \in DbIdx :
           /\ p # q
           /\ q # dbscan_i
           /\ p # dbscan_i
           /\ dbscan_queried[q] = 1
           /\ DbCore(q)
           /\ DbNear(q, p)
           /\ DbNear(dbscan_i, p)
           /\ dbscan_labels[p] = Unvisited
           /\ InSeq(p, dbscan_seedSet)

\* C26: in the result any two core points within eps of each other carry
\* the same cluster id, and it is not negative (the inputs of the model are
\* all sequences of points, so every order of a point set is among them).
C26_CoresConnected ==
    dbscan_pc = "done" =>
        \A p, q \in DbIdx :
            (DbCore(p) /\ DbCore(q) /\ DbNear(p, q)) =>
                /\ dbscan_result[p].cluster = dbscan_result[q].cluster
                /\ dbscan_result[p].cluster >= 0

\* a result in which a core point q, not a neighbour of the seed of its
\* cluster, got the cluster id through a core neighbour p of the seed
C26_Witness ==
    /\ dbscan_pc = "done"
    /\ \E p, q \in DbIdx : \E k \in 1..Len(dbscan_seeds) :
           /\ DbCore(p)
           /\ DbCore(q)
           /\ DbNear(p, q)
           /\ DbNear(dbscan_seeds[k], p)
           /\ ~DbNear(dbscan_seeds[k], q)
           /\ dbscan_result[q].cluster = dbscan_result[dbscan_seeds[k]].cluster

\* C27: in the result every point with a cluster id c >= 0 is a core point
\* or within eps of a core point with id c, and every id that occurs is the
\* id of some core point.
C27_ClusterHasCore ==
    dbscan_pc = "done" =>
        /\ \A p \in DbIdx :
               dbscan_result[p].cluster >= 0 =>
                   \/ DbCore(p)
                   \/ \E q \in DbCoresOf(dbscan_result[p].cluster) : DbNear(p, q)
        /\ \A c \in DbIds : c >= 0 => DbCoresOf(c) # {}

\* a result with two border points: one was noise before the cluster was
\* started (it comes before the seed), one was reached by the expansion
C27_Witness ==
    /\ dbscan_pc = "done"
    /\ \E p, q \in DbIdx : \E k \in 1..Len(dbscan_seeds) :
           /\ p < dbscan_seeds[k]
           /\ dbscan_seeds[k] < q
           /\ ~DbCore(p)
           /\ ~DbCore(q)
           /\ dbscan_result[p].cluster = dbscan_result[dbscan_seeds[k]].cluster
           /\ dbscan_result[q].cluster = dbscan_result[dbscan_seeds[k]].cluster
           /\ dbscan_queried[p] = 1
           /\ dbscan_queried[q] = 1

-----------------------------------------------------------------------------
(* Properties of calcDistance *)

\* the coordinates of the arguments, and their differences
DistDx == Abs(dist_a.x.n - dist_b.x.n)
DistDy == Abs(dist_a.y.n - dist_b.y.n)

\* d is the non-negative real whose square is the integer sq
IsRootOf(d, sq) ==
    /\ Square(d) = RInt(sq)
    /\ ~d.root => d.v.n >= 0

\* C16: calcDistance returns |dx| + |dy| for L1, the square root of
\* dx^2 + dy^2 for L2 and max(|dx|, |dy|) for L-infinity; the quiz computes
\* its reference answers 8, 5 and 4 from its three pairs of points.
C16_DistanceValues ==
    /\ dist_d["L1"].called => dist_d["L1"].val = Exact(RInt(DistDx + DistDy))
    /\ dist_d["L2"].called =>
           IsRootOf(dist_d["L2"].val, DistDx * DistDx + DistDy * DistDy)
    /\ dist_d["Linf"].called =>
           dist_d["Linf"].val =
               Exact(RInt(IF DistDx >= DistDy THEN DistDx ELSE DistDy))
    /\ ( /\ dist_a = Point(2, 5) /\ dist_b = Point(6, 1)
         /\ dist_d["L1"].called ) => dist_d["L1"].val = Exact(RInt(8))
    /\ ( /\ dist_a = Point(3, 3) /\ dist_b = Point(7, 6)
         /\ dist_d["L2"].called ) => dist_d["L2"].val = Exact(RInt(5))
    /\ ( /\ dist_a = Point(0, 2) /\ dist_b = Point(4, 5)
         /\ dist_d["Linf"].called ) => dist_d["Linf"].val = Exact(RInt(4))
    /\ quiz_truth["L1"].called => quiz_truth["L1"].val = Exact(RInt(8))
    /\ quiz_truth["L2"].called => quiz_truth["L2"].val = Exact(RInt(5))
    /\ quiz_truth["Linf"].called => quiz_truth["Linf"].val = Exact(RInt(4))
    /\ \A m \in Norms :
           (quiz_truth[m].called /\ quiz_correctFlags[m]) =>
               parseFloat(quiz_inputs[m]).val \in
                   {RInt(4), RInt(5), RInt(8), Rat(1601, 200)}

\* the quiz has checked an answer for each of the three metrics and found
\* each right
C16_Witness ==
    /\ \A m \in Norms : quiz_truth[m].called /\ quiz_correctFlags[m]
    /\ quiz_unlockedNorms = <<"L1", "L2", "Linf">>

\* C17: calcDistance(a, b, m) and calcDistance(b, a, m) are equal, for every
\* m.
C17_Symmetric ==
    \A m \in Norms :
        (dist_d[m].called /\ dist_r[m].called) => dist_d[m].val = dist_r[m].val

\* both orders were computed for all metrics, for points that differ in both
\* coordinates with a on the larger side in x and the smaller in y
C17_Witness ==
    /\ \A m \in Norms : dist_d[m].called /\ dist_r[m].called
    /\ dist_a.x.n > dist_b.x.n
    /\ dist_a.y.n < dist_b.y.n

\* C18: calcDistance is never negative, and is 0 exactly when a and b have
\* the same coordinates.
C18_ZeroIffSame ==
    \A m \in Norms :
        dist_d[m].called =>
            /\ DLeq(Exact(RInt(0)), dist_d[m].val)
            /\ ~dist_d[m].val.root => dist_d[m].val.v.n >= 0
            /\ dist_d[m].val = Exact(RInt(0)) <=>
                   (dist_a.x = dist_b.x /\ dist_a.y = dist_b.y)

\* the three distances of two points that differ only in y
C18_Witness ==
    /\ \A m \in Norms : dist_d[m].called /\ dist_d[m].val # Exact(RInt(0))
    /\ dist_a.x = dist_b.x
    /\ dist_a.y # dist_b.y

\* C19: for the same two points the L-infinity distance is at most the L2
\* distance, which is at most the L1 distance.
C19_NormOrder ==
    (\A m \in Norms : dist_d[m].called) =>
        /\ DLeq(dist_d["Linf"].val, dist_d["L2"].val)
        /\ DLeq(dist_d["L2"].val, dist_d["L1"].val)

\* three different distances of the same two points, the L2 one irrational
C19_Witness ==
    /\ \A m \in Norms : dist_d[m].called
    /\ dist_d["L2"].val.root
    /\ DLt(dist_d["Linf"].val, dist_d["L2"].val)
    /\ DLt(dist_d["L2"].val, dist_d["L1"].val)

-----------------------------------------------------------------------------
(* Properties of kMeans *)

KmIdx == 1..Len(kMeans_points)
\* initial centroids of length k > 0 were supplied
KmSupplied ==
    /\ kMeans_k > 0
    /\ kMeans_initialCentroids.given
    /\ Len(kMeans_initialCentroids.val) = kMeans_k

\* no update leaves the labels and centroids an earlier update left
KmNoCycle ==
    \A a, b \in 1..Len(kMeans_history) :
        a # b => kMeans_history[a] # kMeans_history[b]

\* after the break the returned labels are those the assignment step gives
\* against the final centroids
KmFixedPoint ==
    (kMeans_pc = "done" /\ kMeans_converged) =>
        /\ Assign(kMeans_points, kMeans_centroids, kMeans_norm) = kMeans_labels
        /\ \A i \in KmIdx : kMeans_result[i].cluster = kMeans_labels[i]

C4_SamplingTerminates ==
    (kMeans_pc = "sample" /\ Len(kMeans_centroids) < kMeans_k) =>
        \E idx \in DrawSet(kMeans_points) : idx \notin kMeans_seen

\* C5: for k > 0 the result has one labeled point per input point, in input
\* order with unchanged coordinates, and every label is in [0, k).
C5_LabelRange ==
    (kMeans_pc = "done" /\ kMeans_k > 0) =>
        /\ Len(kMeans_result) = Len(kMeans_points)
        /\ \A i \in KmIdx :
               /\ kMeans_result[i].x = kMeans_points[i].x
               /\ kMeans_result[i].y = kMeans_points[i].y
               /\ kMeans_result[i].cluster \in 0..(kMeans_k - 1)

\* a result that uses two labels
C5_Witness ==
    /\ kMeans_pc = "done"
    /\ kMeans_k > 1
    /\ \E i, j \in KmIdx :
           /\ kMeans_result[i].cluster = 0
           /\ kMeans_result[j].cluster = kMeans_k - 1

\* C6: for k <= 0 the call returns every input point labeled 0 and has
\* neither sampled centroids nor iterated.
C6_DegenerateK ==
    kMeans_k <= 0 =>
        \/ kMeans_pc = "start"
        \/ /\ kMeans_pc = "done"
           /\ Len(kMeans_result) = Len(kMeans_points)
           /\ \A i \in KmIdx :
                  /\ kMeans_result[i].x = kMeans_points[i].x
                  /\ kMeans_result[i].y = kMeans_points[i].y
                  /\ kMeans_result[i].cluster = 0
           /\ kMeans_centroids = <<>>
           /\ kMeans_seen = {}
           /\ kMeans_iter = 0
           /\ kMeans_history = <<>>
           /\ ~kMeans_converged

\* k <= 0 with points, supplied centroids and an unbounded maxIter
C6_Witness ==
    /\ kMeans_pc = "done"
    /\ kMeans_k <= 0
    /\ Len(kMeans_points) >= 2
    /\ kMeans_initialCentroids.given
    /\ Len(kMeans_initialCentroids.val) > 0
    /\ ~kMeans_maxIter.finite

\* the distance of point i to centroid c (1-based) under the metric of the call
KmDist(i, c) == calcDistance(kMeans_points[i], kMeans_centroids[c], kMeans_norm)

\* label lbl is that of a centroid nearest to point i, and the lowest such
KmNearestLowest(i, lbl) ==
    /\ lbl + 1 \in 1..Len(kMeans_centroids)
    /\ \A c \in 1..Len(kMeans_centroids) : DLeq(KmDist(i, lbl + 1), KmDist(i, c))
    /\ \A c \in 1..lbl : DLt(KmDist(i, lbl + 1), KmDist(i, c))

\* C20: an assignment round, whether it changes labels or ends the loop,
\* leaves every point with the label of a centroid at minimum distance from
\* it among the centroids the round started with, the lowest such label.
C20_AssignNearest ==
    [][ ( /\ kMeans_pc = "iterate"
          /\ \/ kMeans_iter' = kMeans_iter + 1
             \/ kMeans_converged' /\ ~kMeans_converged ) =>
            \A i \in KmIdx : KmNearestLowest(i, kMeans_labels'[i])
      ]_vars

\* after the first round from two different supplied centroids: a point at
\* the same distance from both is labelled 0, another point is labelled 1
C20_Witness ==
    /\ KmSupplied
    /\ kMeans_k = 2
    /\ kMeans_pc = "iterate"
    /\ kMeans_iter = 1
    /\ kMeans_initialCentroids.val[1] # kMeans_initialCentroids.val[2]
    /\ \E i, j \in KmIdx :
           /\ calcDistance(kMeans_points[i], kMeans_initialCentroids.val[1],
                           kMeans_norm)
                  = calcDistance(kMeans_points[i], kMeans_initialCentroids.val[2],
                                 kMeans_norm)
           /\ kMeans_labels[i] = 0
           /\ kMeans_labels[j] = 1

\* the points (1-based) that carry label c - 1 in labels
KmMembers(labels, c) == {i \in KmIdx : labels[i] = c - 1}

RECURSIVE KmTotal(_, _)
\* the sum of the numbers vals[i], i in S
KmTotal(vals, S) ==
    IF S = {} THEN RInt(0)
    ELSE LET i == CHOOSE j \in S : TRUE
         IN  RAdd(vals[i], KmTotal(vals, S \ {i}))

\* C21: in every update step a centroid with at least one assigned point
\* becomes the arithmetic mean of its assigned points and a centroid with no
\* assigned point keeps its position; from the first round on the centroids
\* are k in number.
C21_UpdateMeans ==
    [][ /\ (kMeans_pc = "iterate" /\ kMeans_iter' = kMeans_iter + 1) =>
               \A c \in 1..Len(kMeans_centroids) :
                   LET S == KmMembers(kMeans_labels', c)
                       n == Cardinality(S)
                   IN  IF n > 0
                       THEN /\ RMul(kMeans_centroids'[c].x, RInt(n)) =
                                   KmTotal([i \in KmIdx |-> kMeans_points[i].x], S)
                            /\ RMul(kMeans_centroids'[c].y, RInt(n)) =
                                   KmTotal([i \in KmIdx |-> kMeans_points[i].y], S)
                       ELSE kMeans_centroids'[c] = kMeans_centroids[c]
        /\ (kMeans_pc' \in {"iterate", "done"} /\ kMeans_k > 0) =>
               Len(kMeans_centroids') = kMeans_k
      ]_vars

\* after the first update of two supplied centroids: both points went to the
\* second centroid, which lies between them at a position that is no point,
\* and the first centroid, with no point, is where it was supplied, away
\* from the origin
C21_Witness ==
    /\ KmSupplied
    /\ kMeans_k = 2
    /\ kMeans_pc = "iterate"
    /\ kMeans_iter = 1
    /\ Len(kMeans_points) = 2
    /\ \A i \in KmIdx : kMeans_labels[i] = 1
    /\ kMeans_centroids[2].x.d = 2
    /\ kMeans_centroids[1] = kMeans_initialCentroids.val[1]
    /\ kMeans_centroids[1] # [x |-> RInt(0), y |-> RInt(0)]

\* C22: no step of a call changes the caller's point sequence or the
\* caller's initialCentroids (the sequences, and the coordinates of each of
\* their elements), whatever the call does to its own centroids.
C22_CallerDataUnchanged ==
    [][ /\ kMeans_points' = kMeans_points
        /\ kMeans_initialCentroids' = kMeans_initialCentroids ]_vars

\* a finished call that used the supplied centroids and moved its own
\* centroids away from them
C22_Witness ==
    /\ KmSupplied
    /\ kMeans_pc = "done"
    /\ Len(kMeans_history) >= 1
    /\ kMeans_centroids # kMeans_initialCentroids.val
    /\ \E i \in KmIdx : kMeans_result[i].cluster # 0

-----------------------------------------------------------------------------
(* Properties of evaluate *)

EvIdx == 1..Len(evaluate_out.pts)

\* the points of the hidden cluster of point i
EvCluster(pts, i) ==
    {j \in 1..Len(pts) : pts[j].clusterId = pts[i].clusterId}

EvColours(pts, S) == {pts[j].colour : j \in S}

EvComplete(pts) == \A i \in 1..Len(pts) : pts[i].colour # Null

\* one colour per cluster, distinct colours for distinct clusters
EvOneToOne(pts) ==
    \A i, j \in 1..Len(pts) :
        (pts[i].clusterId = pts[j].clusterId) <=> (pts[i].colour = pts[j].colour)

EvIncorrect == {i \in EvIdx : evaluate_out.updated[i].isCorrect = False}

\* the point recoloured between the two calls took the colour that a
\* different cluster had
EvTookOwnedColour ==
    \E i \in EvIdx :
        /\ evaluate_out.pts[i].colour # evaluate_prev.pts[i].colour
        /\ \E j \in EvIdx :
               /\ evaluate_prev.pts[j].clusterId # evaluate_prev.pts[i].clusterId
               /\ evaluate_prev.pts[j].colour = evaluate_out.pts[i].colour

\* C7: evaluate marks a point correct exactly when its colour is not null,
\* all points of its cluster have that colour and no point of another
\* cluster has it; a point without a colour is marked incorrect; correctCount
\* is the number of points marked correct; nothing else of a point changes.
C7_EvaluateVerdict ==
    evaluate_out.called =>
        LET pts == evaluate_out.pts
            upd == evaluate_out.updated
        IN  /\ Len(upd) = Len(pts)
            /\ \A i \in EvIdx :
                   /\ upd[i] = [pts[i] EXCEPT !.isCorrect = upd[i].isCorrect]
                   /\ upd[i].isCorrect \in {True, False}
                   /\ upd[i].isCorrect = True <=>
                          /\ pts[i].colour # Null
                          /\ EvColours(pts, EvCluster(pts, i)) = {pts[i].colour}
                          /\ pts[i].colour \notin
                                 EvColours(pts, EvIdx \ EvCluster(pts, i))
                   /\ pts[i].colour = Null => upd[i].isCorrect = False
            /\ evaluate_out.correctCount =
                   Cardinality({i \in EvIdx : upd[i].isCorrect = True})

\* a call that marked one point correct, one coloured point incorrect and
\* one point without colour incorrect
C7_Witness ==
    /\ evaluate_out.called
    /\ \E i, j, k \in EvIdx :
           /\ evaluate_out.updated[i].isCorrect = True
           /\ evaluate_out.updated[j].isCorrect = False
           /\ evaluate_out.pts[j].colour # Null
           /\ evaluate_out.pts[k].colour = Null
           /\ evaluate_out.updated[k].isCorrect = False

\* C8: for a complete colouring correctCount is the number of points exactly
\* when clusters and colours correspond one-to-one; and when one point of
\* such a colouring takes the colour of a different cluster, evaluate marks
\* at least two points incorrect.
C8_AllCorrectIffOneToOne ==
    /\ (evaluate_out.called /\ EvComplete(evaluate_out.pts)) =>
           (evaluate_out.correctCount = Len(evaluate_out.pts)
                <=> EvOneToOne(evaluate_out.pts))
    /\ ( /\ evaluate_prev.called
         /\ evaluate_out.called
         /\ EvComplete(evaluate_prev.pts)
         /\ EvOneToOne(evaluate_prev.pts)
         /\ EvTookOwnedColour ) =>
           Cardinality(EvIncorrect) >= 2

\* three points in two clusters, all correct at the first call; then one
\* point took the other cluster's colour and the second call has returned
C8_Witness ==
    /\ evaluate_prev.called
    /\ evaluate_out.called
    /\ Len(evaluate_prev.pts) = 3
    /\ evaluate_prev.correctCount = 3
    /\ EvOneToOne(evaluate_prev.pts)
    /\ EvTookOwnedColour
    /\ Cardinality(EvIncorrect) >= 2

EvCorrect == {i \in EvIdx : evaluate_out.updated[i].isCorrect = True}

\* C28: in the output of evaluate the points of one hidden cluster have the
\* same isCorrect, whether every point has a colour or not, and correctCount
\* is the number of points of the clusters whose points are correct: a sum
\* of sizes of whole clusters.
C28_ClusterUniform ==
    evaluate_out.called =>
        /\ \A i, j \in EvIdx :
               evaluate_out.updated[i].clusterId = evaluate_out.updated[j].clusterId
                   => evaluate_out.updated[i].isCorrect
                          = evaluate_out.updated[j].isCorrect
        /\ evaluate_out.correctCount =
               Cardinality(UNION {EvCluster(evaluate_out.updated, i) :
                                      i \in EvCorrect})

\* three points: a cluster of two with one point coloured and one not, both
\* incorrect, and a cluster of one point that is correct
C28_Witness ==
    /\ evaluate_out.called
    /\ Len(evaluate_out.pts) = 3
    /\ ~EvComplete(evaluate_out.pts)
    /\ \E i, j \in EvIdx :
           /\ i # j
           /\ evaluate_out.pts[i].clusterId = evaluate_out.pts[j].clusterId
           /\ evaluate_out.pts[i].colour # Null
           /\ evaluate_out.pts[j].colour = Null
           /\ evaluate_out.updated[i].isCorrect = False
           /\ evaluate_out.updated[j].isCorrect = False
    /\ evaluate_out.correctCount = 1

-----------------------------------------------------------------------------
(* Properties of generatePoints *)

-----------------------------------------------------------------------------
(* Properties of the session *)

IntroIdx == 1..Len(intro_points)

IntroIncomplete == \E i \in IntroIdx : intro_points[i].colour = Null

\* C9: Confirm while some point has no colour opens the error snackbar and
\* validates nothing: the points with their isCorrect, the result banner,
\* the congratulation and the pending onComplete timers stay as they are and
\* the lesson stays; and nothing else opens the snackbar.
C9_ConfirmNotReady ==
    [][ /\ (handleConfirm /\ IntroIncomplete) =>
               /\ intro_snackbar'.open
               /\ intro_snackbar'.severity = "error"
               /\ intro_points' = intro_points
               /\ intro_result' = intro_result
               /\ intro_congratsOpen' = intro_congratsOpen
               /\ intro_timers' = intro_timers
               /\ app_activeLesson' = app_activeLesson
        /\ (intro_snackbar'.open /\ ~intro_snackbar.open) =>
               (handleConfirm /\ IntroIncomplete)
      ]_vars

\* the error snackbar is open over a partly coloured scatter that has no
\* verdicts and no result
C9_Witness ==
    /\ app_activeLesson = "intro"
    /\ intro_snackbar.open
    /\ intro_snackbar.severity = "error"
    /\ \E i, j \in IntroIdx :
           /\ intro_points[i].colour = Null
           /\ intro_points[j].colour # Null
    /\ \A i \in IntroIdx : intro_points[i].isCorrect = Unknown
    /\ intro_result = NoResult

\* C10: a click on a point with a colour selected gives the point that
\* colour and makes its isCorrect unknown; an unknown isCorrect becomes known
\* only by a Confirm over a complete colouring; a click with no colour
\* selected changes nothing.
C10_ClickInvalidates ==
    [][ /\ \A id \in IntroIds :
               (handlePointClick(id) /\ intro_selectedColour # Null) =>
                   \A i \in IntroIdx :
                       intro_points[i].id = id =>
                           /\ intro_points'[i].colour = intro_selectedColour
                           /\ intro_points'[i].isCorrect = Unknown
        /\ \A i \in IntroIdx :
               ( /\ intro_points[i].isCorrect = Unknown
                 /\ intro_points'[i].isCorrect # Unknown ) =>
                   /\ handleConfirm
                   /\ ~IntroIncomplete
                   /\ intro_result'.attempted
        /\ \A id \in IntroIds :
               (handlePointClick(id) /\ intro_selectedColour = Null) =>
                   UNCHANGED vars
      ]_vars

\* after a validation a point was clicked: it has a colour and no verdict,
\* another point still has its verdict and the result is still shown
C10_Witness ==
    /\ app_activeLesson = "intro"
    /\ intro_result.attempted
    /\ \E i, j \in IntroIdx :
           /\ intro_points[i].colour # Null
           /\ intro_points[i].isCorrect = Unknown
           /\ intro_points[j].isCorrect # Unknown

\* id, x, y and clusterId of every point
Geometry(pts) ==
    [i \in 1..Len(pts) |->
        [id |-> pts[i].id, x |-> pts[i].x, y |-> pts[i].y,
         clusterId |-> pts[i].clusterId]]

\* C11: selecting a colour, clicking a point, Refresh and Confirm keep the
\* number of points and every point's id, x, y and clusterId; Refresh
\* leaves every point without colour and with isCorrect unknown and the
\* result banner reset, over the same scatter.
C11_SessionFrame ==
    [][ /\ ( \/ \E c \in paletteColours : selectColour(c)
             \/ \E id \in IntroIds : handlePointClick(id)
             \/ handleRefresh
             \/ handleConfirm ) =>
               /\ Len(intro_points') = Len(intro_points)
               /\ Geometry(intro_points') = Geometry(intro_points)
               /\ Geometry(intro_points') = Geometry(INITIAL_POINTS)
        /\ handleRefresh =>
               /\ \A i \in IntroIdx :
                      /\ intro_points'[i].colour = Null
                      /\ intro_points'[i].isCorrect = Unknown
               /\ intro_result' = NoResult
      ]_vars

\* Refresh has cleared a scatter that was validated as all correct: the
\* congratulation is still open over points without colours
C11_Witness ==
    /\ app_activeLesson = "intro"
    /\ intro_congratsOpen
    /\ intro_result = NoResult
    /\ intro_selectedColour = Null
    /\ \A i \in IntroIdx :
           /\ intro_points[i].colour = Null
           /\ intro_points[i].isCorrect = Unknown
    /\ Geometry(intro_points) = Geometry(INITIAL_POINTS)
    /\ \E i, j \in IntroIdx : intro_points[i].clusterId # intro_points[j].clusterId

\* C29: in every state of the session each point whose isCorrect is True or
\* False has the value that evaluate gives for the colours the points have
\* now, and while the result banner is shown its correctCount is the number
\* of points whose isCorrect is True.
C29_VerdictsCurrent ==
    app_activeLesson = "intro" =>
        /\ \A i \in IntroIdx :
               intro_points[i].isCorrect # Unknown =>
                   intro_points[i].isCorrect
                       = evaluate(intro_points).updated[i].isCorrect
        /\ intro_result.attempted =>
               intro_result.correctCount =
                   Cardinality({i \in IntroIdx : intro_points[i].isCorrect = True})

\* C30: a timer of onComplete is started only by a Confirm that found every
\* point correct, and when a timer fires the lesson changes only if the
\* introductory lesson is still the lesson shown: it never leaves a lesson
\* the user has gone to since.
C30_TimerKeepsNavigation ==
    /\ [][intro_timers' > intro_timers =>
              /\ handleConfirm
              /\ intro_result'.attempted
              /\ intro_result'.success
              /\ intro_result'.correctCount = Len(intro_points)
              /\ \A i \in IntroIdx : intro_points'[i].isCorrect = True]_vars
    /\ [][(onCompleteTimer /\ app_activeLesson' # app_activeLesson) =>
              app_activeLesson = "intro"]_vars

-----------------------------------------------------------------------------
(* Properties of AdvancedLesson *)

\* the points of the dataset shown
AdvPoints == {DATASETS[adv_datasetKey][i] : i \in 1..AdvPts}

\* the centroids given to K-Means runs since the dataset was last changed,
\* and the cached ones, are all points of the dataset shown
AdvFromDataset ==
    /\ \A k \in KValues :
           \A j \in 1..Len(adv_used[k].val) : adv_used[k].val[j] \in AdvPoints
    /\ \A j \in 1..Len(adv_initialCentroids.val) :
           adv_initialCentroids.val[j] \in AdvPoints

\* C24 as stated: two K-Means runs for the same dataset and the same k with
\* no dataset change between them are given the same initial centroids,
\* whatever ran in between; and after a dataset change no run is given
\* centroids of the previous dataset.
C24_MemoPerPair_Original ==
    /\ [][\A k \in KValues :
              (adv_used[k].given /\ adv_used'[k].given) =>
                  adv_used'[k] = adv_used[k]]_vars
    /\ []AdvFromDataset

\* C24: two K-Means runs for the same dataset and the same k with no dataset
\* change and no K-Means run with another k between them are given the same
\* initial centroids; and after a dataset change no run is given centroids
\* of the previous dataset.
C24_MemoLatest ==
    /\ [][(adv_last.called /\ adv_last'.called /\ adv_last'.k = adv_last.k) =>
              adv_used'[adv_last.k] = adv_used[adv_last.k]]_vars
    /\ []AdvFromDataset

\* after a K-Means run on dataset1 the dataset was changed, and two K-Means
\* runs with k = 2 followed on dataset2, the second from the cache
C24_Witness ==
    /\ adv_datasetKey = "dataset2"
    /\ Len(adv_runs) = 3
    /\ adv_runs[1].dataset = "dataset1"
    /\ \A r \in 1..3 :
           /\ adv_runs[r].method = "KMeans"
           /\ adv_runs[r].paramsDesc.k = Number(RInt(2))
    /\ adv_runs[2].dataset = "dataset2"
    /\ adv_runs[3].dataset = "dataset2"
    /\ adv_runs[3].points = adv_runs[2].points
    /\ adv_last = [called |-> TRUE, k |-> Number(RInt(2))]
    /\ adv_initialCentroids = adv_used[Number(RInt(2))]

\* C25: no dataset ever has more than three saved runs; a Run request made
\* when the dataset shown has three sets the warning and leaves the runs and
\* the centroid cache as they are; any other Run request appends one run and
\* leaves the runs saved before as they are.
C25_RunLimit ==
    /\ [](\A d \in DatasetKey : ExistingCount(adv_runs, d) <= 3)
    /\ [][handleRun =>
              IF ExistingCount(adv_runs, adv_datasetKey) >= 3
              THEN /\ adv_warning' = MaxRunsWarning
                   /\ UNCHANGED <<adv_runs, adv_initialCentroids,
                                  adv_centroidKey>>
              ELSE /\ Len(adv_runs') = Len(adv_runs) + 1
                   /\ \A r \in 1..Len(adv_runs) : adv_runs'[r] = adv_runs[r]]_vars

=============================================================================
